---------------------------- MODULE Spec2Model ----------------------------
(***************************************************************************)
(* A model of the adaptive report-synthesis pipeline of                    *)
(* src/report_generator.py (class ReportGenerator): the validator, the     *)
(* section template generators, the template and hybrid tiers, the AI      *)
(* attempt with its model downgrade, and the tiered orchestrator.          *)
(*                                                                         *)
(* Texts are TLA+ strings and are processed character by character, the    *)
(* way the Python code processes them (split, strip, lower, startswith,    *)
(* substring tests).  Floats are fixed-point numbers in hundredths.        *)
(* A Python call that may raise returns a record [ok, val]: ok = TRUE and  *)
(* val the returned text, or ok = FALSE and val the exception's name.      *)
(***************************************************************************)
EXTENDS Integers, Sequences, FiniteSets, TLC

VARIABLES
    call,            \* the arguments of the function under study (pure-function specifications)
    ret,             \* its result, [done |-> FALSE] before the call
    pc,              \* position of the request inside generate_report / _generate_with_fallback
    ai_available,    \* self.ai_available and self.client (set once by __init__)
    framework,       \* the framework chosen by _select_framework
    dataframe,       \* df: the parsed table, or NoDataFrame
    metrics,         \* the metrics bundle of _extract_metrics
    schema,          \* the schema of _detect_schema
    user_name,       \* generate_report arguments
    user_role,
    report_focus,
    content_length,  \* len(data_content)
    model,           \* the model chosen by _select_model for the AI attempt
    ai_report,       \* the text returned by the generation collaborator
    hybrid_report,   \* the text built by _generate_hybrid_report
    outcome,         \* what _generate_with_fallback / generate_report hands back
    log              \* the calls made so far, in order

pureVars == <<call, ret>>
reqVars == <<ai_available, framework, dataframe, metrics, schema, user_name,
             user_role, report_focus, content_length>>
runVars == <<pc, model, ai_report, hybrid_report, outcome, log>>
vars == <<call, ret, pc, ai_available, framework, dataframe, metrics, schema,
          user_name, user_role, report_focus, content_length, model, ai_report,
          hybrid_report, outcome, log>>

-----------------------------------------------------------------------------
(* Python string primitives *)

Char(s, i) == SubSeq(s, i, i)

UpperChars == "ABCDEFGHIJKLMNOPQRSTUVWXYZ"
LowerChars == "abcdefghijklmnopqrstuvwxyz"

\* str.lower() on one character
LowerChar(c) ==
    IF \E i \in 1..Len(UpperChars) : Char(UpperChars, i) = c
    THEN LET i == CHOOSE k \in 1..Len(UpperChars) : Char(UpperChars, k) = c
         IN  Char(LowerChars, i)
    ELSE c

\* str.upper() on one character
UpperChar(c) ==
    IF \E i \in 1..Len(LowerChars) : Char(LowerChars, i) = c
    THEN LET i == CHOOSE k \in 1..Len(LowerChars) : Char(LowerChars, k) = c
         IN  Char(UpperChars, i)
    ELSE c

RECURSIVE Lower(_)
Lower(s) ==
    IF Len(s) = 0 THEN ""
    ELSE IF Len(s) = 1 THEN LowerChar(s)
    ELSE LET h == Len(s) \div 2
         IN  Lower(SubSeq(s, 1, h)) \o Lower(SubSeq(s, h + 1, Len(s)))

RECURSIVE Upper(_)
Upper(s) ==
    IF Len(s) = 0 THEN ""
    ELSE IF Len(s) = 1 THEN UpperChar(s)
    ELSE LET h == Len(s) \div 2
         IN  Upper(SubSeq(s, 1, h)) \o Upper(SubSeq(s, h + 1, Len(s)))

\* the whitespace str.strip() and str.split() recognise, among the characters used here
IsSpace(c) == c \in {" ", "\n", "\t"}

\* p in t
Contains(t, p) ==
    \E i \in 1..(Len(t) - Len(p) + 1) : SubSeq(t, i, i + Len(p) - 1) = p

\* s.startswith(p)
StartsWith(s, p) == Len(s) >= Len(p) /\ SubSeq(s, 1, Len(p)) = p

\* s.lstrip(): the whitespace at the front goes
RECURSIVE LStrip(_)
LStrip(s) ==
    IF Len(s) > 0 /\ IsSpace(Char(s, 1)) THEN LStrip(SubSeq(s, 2, Len(s))) ELSE s

\* s.rstrip(): the whitespace at the back goes
RECURSIVE RStrip(_)
RStrip(s) ==
    IF Len(s) > 0 /\ IsSpace(Char(s, Len(s))) THEN RStrip(SubSeq(s, 1, Len(s) - 1)) ELSE s

\* s.strip()
Strip(s) == RStrip(LStrip(s))

\* len(s.split()): the number of maximal runs of non-whitespace characters
WordCount(s) ==
    Cardinality({i \in 1..Len(s) :
                    /\ ~IsSpace(Char(s, i))
                    /\ (i = 1 \/ IsSpace(Char(s, i - 1)))})

\* s.split(): the runs themselves, in order; the text is cut at the whitespace
\* character next to its middle, and the two parts are split in turn
RECURSIVE SplitWords(_)
SplitWords(s) ==
    LET n == Len(s)
        half == (n + 1) \div 2
        IsCut(i) == IsSpace(Char(s, i))
        Parts(cut) == SplitWords(SubSeq(s, 1, cut - 1)) \o SplitWords(SubSeq(s, cut + 1, n))
    IN  IF n = 0 THEN <<>>
        ELSE IF \E i \in half..n : IsCut(i)
        THEN Parts(CHOOSE i \in half..n : IsCut(i) /\ \A j \in half..(i - 1) : ~IsCut(j))
        ELSE IF \E i \in 1..(half - 1) : IsCut(i)
        THEN Parts(CHOOSE i \in 1..(half - 1) :
                        IsCut(i) /\ \A j \in (i + 1)..(half - 1) : ~IsCut(j))
        ELSE <<s>>

\* s.split('\n')
RECURSIVE SplitLinesFrom(_, _)
SplitLinesFrom(s, i) ==
    LET nls == {j \in i..Len(s) : Char(s, j) = "\n"}
    IN  IF nls = {} THEN <<SubSeq(s, i, Len(s))>>
        ELSE LET n == CHOOSE j \in nls : \A k \in nls : j <= k
             IN  <<SubSeq(s, i, n - 1)>> \o SplitLinesFrom(s, n + 1)

SplitLines(s) == SplitLinesFrom(s, 1)

\* sep.join(parts)
RECURSIVE Join(_, _)
Join(parts, sep) ==
    IF Len(parts) = 0 THEN ""
    ELSE IF Len(parts) = 1 THEN parts[1]
    ELSE LET h == Len(parts) \div 2
         IN  Join(SubSeq(parts, 1, h), sep) \o sep
                \o Join(SubSeq(parts, h + 1, Len(parts)), sep)

\* s * n
RECURSIVE Repeat(_, _)
Repeat(s, n) ==
    IF n <= 0 THEN ""
    ELSE IF n = 1 THEN s
    ELSE Repeat(s, n \div 2) \o Repeat(s, n - n \div 2)

\* str.title() on the words used here: first letter of each run of letters upper-cased
IsLetter(c) ==
    \E i \in 1..Len(LowerChars) : Char(LowerChars, i) = c \/ Char(UpperChars, i) = c

TitleChar(s, i) ==
    IF i = 1 \/ ~IsLetter(Char(s, i - 1)) THEN UpperChar(Char(s, i))
    ELSE LowerChar(Char(s, i))

RECURSIVE TitleBetween(_, _, _)
TitleBetween(s, lo, hi) ==
    IF lo > hi THEN ""
    ELSE IF lo = hi THEN TitleChar(s, lo)
    ELSE LET h == (lo + hi) \div 2
         IN  TitleBetween(s, lo, h) \o TitleBetween(s, h + 1, hi)

Title(s) == TitleBetween(s, 1, Len(s))

-----------------------------------------------------------------------------
(* The result of a call that may raise *)

Ok(v) == [ok |-> TRUE, val |-> v]
Raise(e) == [ok |-> FALSE, val |-> e]

-----------------------------------------------------------------------------
(* The validator: _validate_report *)

MinLength == 100
MinWords == 50
GenericLimit == 2

generic_phrases ==
    << "as an AI language model",
       "I cannot provide",
       "I don't have access",
       "based on the limited information",
       "without more data" >>

\* sum(1 for phrase in generic_phrases if phrase.lower() in report.lower())
generic_count(report) ==
    LET lowered == Lower(report)
    IN  Cardinality({i \in 1..Len(generic_phrases) :
                        Contains(lowered, Lower(generic_phrases[i]))})

\* the validator with the boilerplate threshold off by one
_validate_report_lenient(report) ==
    IF report = "" \/ Len(Strip(report)) < MinLength
    THEN FALSE
    ELSE /\ Contains(report, "##")
         /\ WordCount(report) > MinWords
         /\ generic_count(report) <= GenericLimit

_validate_report(report) ==
    IF report = "" \/ Len(Strip(report)) < MinLength
    THEN FALSE
    ELSE LET has_sections == Contains(report, "##")
             has_content == WordCount(report) > MinWords
         IN  has_sections /\ has_content /\ generic_count(report) < GenericLimit

-----------------------------------------------------------------------------
(* Numbers.  A Python float is a fixed-point integer in hundredths; the     *)
(* format specs :.2f and :.1f print it.                                     *)

Abs(x) == IF x < 0 THEN -x ELSE x

\* x / y rounded to the nearest integer (y > 0)
RoundDiv(x, y) ==
    IF x >= 0 THEN (2 * x + y) \div (2 * y) ELSE -((2 * (-x) + y) \div (2 * y))

TwoDigits(n) == IF n < 10 THEN "0" \o ToString(n) ELSE ToString(n)

\* f"{x:.2f}" of the float whose hundredths are h
Fmt2f(h) ==
    (IF h < 0 THEN "-" ELSE "") \o ToString(Abs(h) \div 100) \o "." \o TwoDigits(Abs(h) % 100)

\* f"{x:.1f}" of the float whose hundredths are h
Fmt1f(h) ==
    LET tenths == RoundDiv(Abs(h), 10)
    IN  (IF h < 0 THEN "-" ELSE "") \o ToString(tenths \div 10) \o "." \o ToString(tenths % 10)

\* the largest r with r * r <= n, searched between lo and hi (lo * lo <= n < hi * hi)
RECURSIVE ISqrtBetween(_, _, _)
ISqrtBetween(n, lo, hi) ==
    IF hi - lo <= 1 THEN lo
    ELSE LET mid == (lo + hi) \div 2
         IN  IF mid * mid <= n THEN ISqrtBetween(n, mid, hi) ELSE ISqrtBetween(n, lo, mid)

\* (the root of an integer TLC can hold is below 46341)
ISqrt(n) == ISqrtBetween(n, 0, IF n + 1 < 46341 THEN n + 1 ELSE 46341)

-----------------------------------------------------------------------------
(* The table (pandas DataFrame).  A frame is [columns, data]: the column    *)
(* names and, per column, its cells by row.  A cell is a number, a missing  *)
(* value (NaN), a text, a timestamp (its day number) or a missing timestamp *)
(* (NaT).                                                                   *)

Num(n) == [k |-> "num", n |-> n, s |-> ""]
NA == [k |-> "na", n |-> 0, s |-> ""]
Str(t) == [k |-> "str", n |-> 0, s |-> t]
Date(d) == [k |-> "date", n |-> d, s |-> ""]
NaT == [k |-> "nat", n |-> 0, s |-> ""]
\* a cell holding a list (a nested JSON array), which cannot be hashed
Obj == [k |-> "obj", n |-> 0, s |-> ""]

IsNull(c) == c.k \in {"na", "nat"}

Frame(cols, data) == [none |-> FALSE, columns |-> cols, data |-> data]

\* df = None: the input gave no table
NoDataFrame == [none |-> TRUE, columns |-> <<>>, data |-> <<>>]

\* len(df)
RowCount(df) == IF Len(df.data) = 0 THEN 0 ELSE Len(df.data[1])

ColIndex(df, col) == CHOOSE i \in 1..Len(df.columns) : df.columns[i] = col

Column(df, col) == df.data[ColIndex(df, col)]

\* the dtype test of select_dtypes(include=[np.number]): no text and no timestamp cell
\* (a column without rows has the object dtype)
IsNumericColumn(cells) ==
    Len(cells) > 0 /\ \A i \in 1..Len(cells) : cells[i].k \in {"num", "na"}

\* col names several columns of df, so that df[col] is a table and not a column
Duplicated(df, col) == Cardinality({i \in 1..Len(df.columns) : df.columns[i] = col}) > 1

\* s.replace(' ', '_')
RECURSIVE ReplaceSpaces(_)
ReplaceSpaces(s) ==
    IF Len(s) = 0 THEN ""
    ELSE IF Len(s) = 1 THEN (IF s = " " THEN "_" ELSE s)
    ELSE LET h == Len(s) \div 2
         IN  ReplaceSpaces(SubSeq(s, 1, h)) \o ReplaceSpaces(SubSeq(s, h + 1, Len(s)))

\* str(col).strip().replace(' ', '_').lower()
CleanColumnName(col) == Lower(ReplaceSpaces(Strip(col)))

RECURSIVE SelectSeq2(_, _)
SelectSeq2(seq, keep) ==
    IF Len(seq) = 0 THEN <<>>
    ELSE (IF keep[1] THEN <<Head(seq)>> ELSE <<>>) \o SelectSeq2(Tail(seq), Tail(keep))

\* col_data = df[col].dropna()
DropNa(cells) == SelectSeq(cells, LAMBDA c : ~IsNull(c))

RECURSIVE SumCells(_)
SumCells(cells) == IF Len(cells) = 0 THEN 0 ELSE Head(cells).n + SumCells(Tail(cells))

MinCell(cells) == CHOOSE v \in {cells[i].n : i \in 1..Len(cells)} :
                      \A i \in 1..Len(cells) : v <= cells[i].n

MaxCell(cells) == CHOOSE v \in {cells[i].n : i \in 1..Len(cells)} :
                      \A i \in 1..Len(cells) : v >= cells[i].n

\* the values in ascending order
RECURSIVE SortedValues(_)
SortedValues(cells) ==
    IF Len(cells) = 0 THEN <<>>
    ELSE LET m == MinCell(cells)
             i == CHOOSE j \in 1..Len(cells) : cells[j].n = m
         IN  <<m>> \o SortedValues(SubSeq(cells, 1, i - 1) \o SubSeq(cells, i + 1, Len(cells)))

\* Series.median(), in hundredths
MedianH(cells) ==
    LET v == SortedValues(cells)
        n == Len(v)
    IN  IF n % 2 = 1 THEN 100 * v[(n + 1) \div 2]
        ELSE 50 * (v[n \div 2] + v[n \div 2 + 1])

RECURSIVE SumSqDev(_, _, _)
SumSqDev(cells, total, n) ==
    IF Len(cells) = 0 THEN 0
    ELSE (n * Head(cells).n - total) * (n * Head(cells).n - total)
            + SumSqDev(Tail(cells), total, n)

\* Series.std() (sample standard deviation, ddof = 1), in hundredths, cut to the
\* fixed-point resolution: sqrt(sum((x - mean)^2) / (n - 1))
StdH(cells) ==
    LET n == Len(cells)
        ssd == SumSqDev(cells, SumCells(cells), n)  \* n^2 * sum((x - mean)^2)
    IN  ISqrt(100 * ((100 * ssd) \div (n * n * (n - 1))))

StatsLimit == 10

\* one entry of metrics["calculated"]
ColumnStats(col, cells) ==
    LET col_data == DropNa(cells)
    IN  [ col |-> col,
          sum |-> 100 * SumCells(col_data),
          mean |-> RoundDiv(100 * SumCells(col_data), Len(col_data)),
          median |-> MedianH(col_data),
          min |-> 100 * MinCell(col_data),
          max |-> 100 * MaxCell(col_data),
          std |-> IF Len(col_data) > 1 THEN StdH(col_data) ELSE 0,
          count |-> Len(col_data),
          missing |-> Len(cells) - Len(col_data),
          zeros |-> Len(SelectSeq(cells, LAMBDA c : c.k = "num" /\ c.n = 0)) ]

-----------------------------------------------------------------------------
(* Date columns: pd.to_datetime(df[col], errors='coerce') *)

Digits == "0123456789"

IsDigit(c) == \E i \in 1..10 : Char(Digits, i) = c

DigitValue(c) == (CHOOSE i \in 1..10 : Char(Digits, i) = c) - 1

RECURSIVE ParseNat(_)
ParseNat(s) ==
    IF Len(s) = 0 THEN 0
    ELSE 10 * ParseNat(SubSeq(s, 1, Len(s) - 1)) + DigitValue(Char(s, Len(s)))

IsLeap(y) == (y % 4 = 0 /\ y % 100 # 0) \/ y % 400 = 0

DaysInMonth(y, m) ==
    IF m = 2 THEN (IF IsLeap(y) THEN 29 ELSE 28)
    ELSE IF m \in {4, 6, 9, 11} THEN 30 ELSE 31

\* the texts the lenient parser accepts here: YYYY-MM-DD with a real month and day
IsIsoDate(s) ==
    /\ Len(s) = 10
    /\ Char(s, 5) = "-" /\ Char(s, 8) = "-"
    /\ \A i \in {1, 2, 3, 4, 6, 7, 9, 10} : IsDigit(Char(s, i))
    /\ LET y == ParseNat(SubSeq(s, 1, 4))
           m == ParseNat(SubSeq(s, 6, 7))
           d == ParseNat(SubSeq(s, 9, 10))
       IN  m \in 1..12 /\ d \in 1..DaysInMonth(y, m)

\* the number of the day y-m-d, counted from 0001-01-01 (date.toordinal)
DayNumber(y, m, d) ==
    LET yy == y - 1
        before == Cardinality({k \in 1..12 : k < m}) \* months before m
        monthDays == [k \in 1..12 |-> DaysInMonth(y, k)]
        RECURSIVE SumTo(_)
        SumTo(k) == IF k = 0 THEN 0 ELSE monthDays[k] + SumTo(k - 1)
    IN  365 * yy + yy \div 4 - yy \div 100 + yy \div 400 + SumTo(before) + d

EpochDay == DayNumber(1970, 1, 1)

\* one cell through to_datetime(errors='coerce'): an unparseable value becomes NaT;
\* a number is taken as nanoseconds since the epoch, which is the epoch's day for
\* the numbers used here
ToDatetimeCell(c) ==
    IF c.k = "str"
    THEN IF IsIsoDate(c.s)
         THEN [k |-> "date",
               n |-> DayNumber(ParseNat(SubSeq(c.s, 1, 4)), ParseNat(SubSeq(c.s, 6, 7)),
                               ParseNat(SubSeq(c.s, 9, 10))),
               s |-> c.s]
         ELSE NaT
    ELSE IF c.k = "num" THEN [k |-> "date", n |-> EpochDay, s |-> "1970-01-01"]
    ELSE IF c.k = "date" THEN c
    ELSE NaT

ToDatetime(cells) == [i \in 1..Len(cells) |-> ToDatetimeCell(cells[i])]

\* str(Timestamp) of a timestamp at midnight
TimestampStr(c) == c.s \o " 00:00:00"

date_keywords == <<"date", "time", "year", "month", "day">>

HasKeyword(name, keywords) ==
    \E i \in 1..Len(keywords) : Contains(Lower(name), keywords[i])

-----------------------------------------------------------------------------
(* pd.read_csv(io.StringIO(content), sep=sep): the C parser on unquoted     *)
(* text.  Blank lines are skipped; the header line names the columns; a     *)
(* short row is filled with missing values; a first data row longer than    *)
(* the header gives its leading fields to the index; a later row longer     *)
(* than the row before it is a tokenizing error.                            *)

\* s.split(sep) for a separator of one character
RECURSIVE SplitBy(_, _)
SplitBy(s, sep) ==
    IF \E i \in 1..Len(s) : Char(s, i) = sep
    THEN LET n == CHOOSE i \in 1..Len(s) :
                      Char(s, i) = sep /\ \A j \in 1..(i - 1) : Char(s, j) # sep
         IN  <<SubSeq(s, 1, n - 1)>> \o SplitBy(SubSeq(s, n + 1, Len(s)), sep)
    ELSE <<s>>

\* the fields of the lines that are not blank
CsvRows(content, sep) ==
    LET lines == SelectSeq(SplitBy(content, "\n"), LAMBDA l : l # "")
    IN  [k \in 1..Len(lines) |-> SplitBy(lines[k], sep)]

\* the texts read as a missing value, among those the inputs hold
na_values == {"", "NA", "NaN", "nan", "null", "N/A"}

\* a whole number, with or without a sign (the inputs hold no other number format)
IsInt(f) ==
    LET digits == IF Len(f) > 0 /\ Char(f, 1) = "-" THEN SubSeq(f, 2, Len(f)) ELSE f
    IN  Len(digits) > 0 /\ \A i \in 1..Len(digits) : IsDigit(Char(digits, i))

ParseInt(f) ==
    IF Char(f, 1) = "-" THEN 0 - ParseNat(SubSeq(f, 2, Len(f))) ELSE ParseNat(f)

\* the cells of one column: numbers when every field present is a number, texts
\* otherwise
CsvColumn(fields) ==
    LET numeric == \A r \in 1..Len(fields) : fields[r] \in na_values \/ IsInt(fields[r])
    IN  [r \in 1..Len(fields) |->
            IF fields[r] \in na_values THEN NA
            ELSE IF numeric THEN Num(ParseInt(fields[r]))
            ELSE Str(fields[r])]

\* the column names of a header line: an empty name becomes 'Unnamed: i', a name seen
\* before gets the number of its repeat
HeaderNames(fields) ==
    LET named == [i \in 1..Len(fields) |->
                     IF fields[i] = "" THEN "Unnamed: " \o ToString(i - 1) ELSE fields[i]]
        seen(i) == Cardinality({j \in 1..(i - 1) : named[j] = named[i]})
    IN  [i \in 1..Len(fields) |->
            IF seen(i) = 0 THEN named[i] ELSE named[i] \o "." \o ToString(seen(i))]

\* the table of rows of fields: names for the last Len(names) fields of every row
CsvFrame(names, data, width) ==
    LET leading == width - Len(names)
        Field(r, i) == IF leading + i <= Len(data[r]) THEN data[r][leading + i] ELSE ""
    IN  Frame(names,
              [i \in 1..Len(names) |-> CsvColumn([r \in 1..Len(data) |-> Field(r, i)])])

\* header is TRUE for header='infer', FALSE for header=None
read_csv(content, sep, header) ==
    LET rows == CsvRows(content, sep)
    IN  IF Len(rows) = 0 THEN Raise("EmptyDataError")
        ELSE IF header
        THEN LET data == Tail(rows)
                 width == IF Len(data) > 0 /\ Len(data[1]) > Len(rows[1])
                          THEN Len(data[1]) ELSE Len(rows[1])
             IN  IF \E r \in 2..Len(data) : Len(data[r]) > width
                 THEN Raise("ParserError")
                 ELSE Ok(CsvFrame(HeaderNames(rows[1]), data, width))
        ELSE LET width == Len(rows[1])
             IN  IF \E r \in 2..Len(rows) : Len(rows[r]) > width
                 THEN Raise("ParserError")
                 ELSE Ok(CsvFrame([i \in 1..width |-> ToString(i - 1)], rows, width))

-----------------------------------------------------------------------------
(* _extract_metrics: the statistics of a parsed table (lines 465-530) *)

NoDateRange == [present |-> FALSE, start |-> "", end |-> "", days |-> 0]
NoDataQuality ==
    [present |-> FALSE, total_cells |-> 0, missing_cells |-> 0, missing_percentage |-> 0,
     duplicate_rows |-> 0, duplicate_percentage |-> 0]

\* the bundle as initialised, which is also the bundle of an input that gave no table
InitialMetrics ==
    [ row_count |-> 0, column_count |-> 0, columns |-> <<>>, numeric_columns |-> <<>>,
      calculated |-> <<>>, date_columns |-> <<>>, date_range |-> NoDateRange,
      data_quality |-> NoDataQuality, parse_error |-> "", error_type |-> "" ]

\* df.columns = [clean(col) for col in df.columns]
CleanColumns(df) ==
    Frame([i \in 1..Len(df.columns) |-> CleanColumnName(df.columns[i])], df.data)

\* df.select_dtypes(include=[np.number]).columns.tolist()
NumericColumns(df) ==
    LET idx == {i \in 1..Len(df.columns) : IsNumericColumn(df.data[i])}
        RECURSIVE Pick(_)
        Pick(i) == IF i > Len(df.columns) THEN <<>>
                   ELSE (IF i \in idx THEN <<df.columns[i]>> ELSE <<>>) \o Pick(i + 1)
    IN  Pick(1)

\* the loop over every numeric column, without the limit
CalculatedUnlimited(df, numeric_cols) ==
    LET RECURSIVE Loop(_)
        Loop(i) ==
            IF i > Len(numeric_cols) THEN <<>>
            ELSE LET cells == Column(df, numeric_cols[i])
                 IN  (IF ~Duplicated(df, numeric_cols[i]) /\ Len(DropNa(cells)) > 0
                      THEN <<ColumnStats(numeric_cols[i], cells)>> ELSE <<>>) \o Loop(i + 1)
    IN  Loop(1)

\* the loop over numeric_cols[:10]: an entry only for a column with a non-missing value;
\* float() of the sums of a name shared by several columns raises, and the column is
\* passed over
Calculated(df, numeric_cols) ==
    LET limited == SubSeq(numeric_cols, 1, IF Len(numeric_cols) < StatsLimit
                                           THEN Len(numeric_cols) ELSE StatsLimit)
        RECURSIVE Loop(_)
        Loop(i) ==
            IF i > Len(limited) THEN <<>>
            ELSE LET cells == Column(df, limited[i])
                 IN  (IF ~Duplicated(df, limited[i]) /\ Len(DropNa(cells)) > 0
                      THEN <<ColumnStats(limited[i], cells)>> ELSE <<>>) \o Loop(i + 1)
    IN  Loop(1)

\* the loop over df.columns that converts every column with a date-like name, in
\* place, and keeps as date columns those with at least one parsed value.
\* (to_datetime of the table that a shared name stands for raises, and the columns
\* are left as they are)
RECURSIVE ConvertDates(_, _)
ConvertDates(df, i) ==
    IF i > Len(df.columns) THEN [df |-> df, date_cols |-> <<>>]
    ELSE IF HasKeyword(df.columns[i], date_keywords) /\ ~Duplicated(df, df.columns[i])
         THEN LET converted == ToDatetime(df.data[i])
                  df2 == Frame(df.columns, [df.data EXCEPT ![i] = converted])
                  rest == ConvertDates(df2, i + 1)
                  kept == \E r \in 1..Len(converted) : ~IsNull(converted[r])
              IN  [df |-> rest.df,
                   date_cols |-> (IF kept THEN <<df.columns[i]>> ELSE <<>>) \o rest.date_cols]
         ELSE ConvertDates(df, i + 1)

Row(df, r) == [i \in 1..Len(df.columns) |-> df.data[i][r]]

\* int(df.isnull().sum().sum())
MissingCells(df) ==
    Cardinality({<<i, r>> \in (1..Len(df.columns)) \X (1..RowCount(df)) : IsNull(df.data[i][r])})

\* int(df.duplicated().sum()): rows equal to an earlier row
DuplicateRows(df) ==
    Cardinality({r \in 1..RowCount(df) : \E q \in 1..(r - 1) : Row(df, q) = Row(df, r)})

DateRange(df, date_cols) ==
    IF Len(date_cols) = 0 THEN NoDateRange
    ELSE LET parsed == DropNa(Column(df, date_cols[1]))
         IN  IF Len(parsed) = 0 THEN NoDateRange
             ELSE LET lo == CHOOSE c \in {parsed[i] : i \in 1..Len(parsed)} :
                                \A i \in 1..Len(parsed) : c.n <= parsed[i].n
                      hi == CHOOSE c \in {parsed[i] : i \in 1..Len(parsed)} :
                                \A i \in 1..Len(parsed) : c.n >= parsed[i].n
                  IN  [present |-> TRUE, start |-> TimestampStr(lo), end |-> TimestampStr(hi),
                       days |-> IF Len(parsed) > 1 THEN hi.n - lo.n ELSE 0]

DataQuality(df) ==
    LET size == Len(df.columns) * RowCount(df)
    IN  [ present |-> TRUE,
          total_cells |-> size,
          missing_cells |-> MissingCells(df),
          missing_percentage |-> IF size > 0 THEN RoundDiv(MissingCells(df) * 10000, size) ELSE 0,
          duplicate_rows |-> DuplicateRows(df),
          duplicate_percentage |-> IF RowCount(df) > 0
                                   THEN RoundDiv(DuplicateRows(df) * 10000, RowCount(df)) ELSE 0 ]

\* df.duplicated() hashes the rows, and raises on a cell that cannot be hashed
Unhashable(df) ==
    \E i \in 1..Len(df.columns) : \E r \in 1..RowCount(df) : df.data[i][r].k = "obj"

\* the table and the bundle _extract_metrics returns for a parsed table, or for none.
\* What raises outside the inner handlers is caught at line 532: the bundle keeps what
\* was computed before, and parse_error and error_type are set
ExtractFromFrame(parsed) ==
    IF parsed.none THEN [df |-> NoDataFrame, metrics |-> InitialMetrics]
    ELSE LET df == CleanColumns(parsed)
             numeric_cols == NumericColumns(df)
             dated == ConvertDates(df, 1)
             failed == Unhashable(dated.df)
         IN  [ df |-> dated.df,
               metrics |->
                 [ row_count |-> RowCount(df),
                   column_count |-> Len(df.columns),
                   columns |-> df.columns,
                   numeric_columns |-> numeric_cols,
                   calculated |-> Calculated(df, numeric_cols),
                   date_columns |-> dated.date_cols,
                   date_range |-> DateRange(dated.df, dated.date_cols),
                   data_quality |-> IF failed THEN NoDataQuality ELSE DataQuality(dated.df),
                   parse_error |-> IF failed THEN "unhashable type: 'list'" ELSE "",
                   error_type |-> IF failed THEN "TypeError" ELSE "" ] ]

separators == <<",", "\t", ";", "|">>

\* the parse of an input that has no parser
NoParse == [df |-> NoDataFrame, separator |-> "", has_header |-> "unset"]

\* lines 428-445: the first separator whose parse does not raise gives the table and
\* is recorded; when every parse raises, one more parse without a header
ParseCsv(content) ==
    LET parses == [i \in 1..Len(separators) |-> read_csv(content, separators[i], TRUE)]
        parsed == {i \in 1..Len(separators) : parses[i].ok}
    IN  IF parsed # {}
        THEN LET first == CHOOSE i \in parsed : \A j \in parsed : i <= j
             IN  [df |-> parses[first].val, separator |-> separators[first],
                  has_header |-> "unset"]
        ELSE LET retry == read_csv(content, ",", FALSE)
             IN  IF retry.ok
                 THEN [df |-> retry.val, separator |-> "", has_header |-> "False"]
                 ELSE NoParse

\* the bundle of a parse: the statistics, and how the table was parsed
BundleOf(parse, data_type) ==
    LET extract == ExtractFromFrame(parse.df)
        how == [ separator |-> parse.separator, has_header |-> parse.has_header,
                 parsing_method |-> data_type ]
    IN  [ df |-> extract.df,
          metrics |-> [k \in DOMAIN extract.metrics \cup DOMAIN how |->
                          IF k \in DOMAIN how THEN how[k] ELSE extract.metrics[k]] ]

\* _extract_metrics for the data types 'csv' and 'text' ('text' has no parser)
_extract_metrics(content, data_type) ==
    BundleOf(IF data_type = "csv" THEN ParseCsv(content) ELSE NoParse, data_type)

-----------------------------------------------------------------------------
(* _load_templates: the required sections of each framework *)

TEMPLATES ==
    [ financial |-> [ sections |-> << "Executive Summary", "Revenue Analysis", "Cost Structure",
                                      "Profitability Metrics", "Cash Flow Assessment",
                                      "Risk Factors", "Recommendations" >>,
                      default_focus |-> "profit" ],
      sales |-> [ sections |-> << "Executive Summary", "Pipeline Analysis", "Conversion Metrics",
                                  "Performance by Segment", "Trends & Forecasting",
                                  "Action Items" >>,
                  default_focus |-> "growth" ],
      operational |-> [ sections |-> << "Operations Overview", "Efficiency Metrics",
                                        "Quality Indicators", "Capacity Utilization",
                                        "Bottleneck Analysis", "Optimization Recommendations" >>,
                        default_focus |-> "full" ],
      general |-> [ sections |-> << "Executive Summary", "Data Overview", "Key Insights",
                                    "Trend Analysis", "Recommendations" >>,
                    default_focus |-> "full" ] ]

Frameworks == {"financial", "sales", "operational", "general"}

\* self.TEMPLATES.get(framework, self.TEMPLATES["general"])
TemplateOf(fw) == IF fw \in Frameworks THEN TEMPLATES[fw] ELSE TEMPLATES["general"]

-----------------------------------------------------------------------------
(* Helpers of the section generators *)

Take(seq, k) == SubSeq(seq, 1, IF Len(seq) < k THEN Len(seq) ELSE k)

\* the concatenation of the sequences parts[1], parts[2], ...
RECURSIVE Flatten(_)
Flatten(parts) == IF Len(parts) = 0 THEN <<>> ELSE Head(parts) \o Flatten(Tail(parts))

\* [col for col in metrics.get('numeric_columns', []) if any(word in col.lower() for word in words)]
ColumnsNamed(m, words) == SelectSeq(m.numeric_columns, LAMBDA col : HasKeyword(col, words))

\* col in metrics['calculated']
HasCalc(m, col) == \E i \in 1..Len(m.calculated) : m.calculated[i].col = col

\* metrics['calculated'][col]
Calc(m, col) == m.calculated[CHOOSE i \in 1..Len(m.calculated) : m.calculated[i].col = col]

\* a / b * 100 in hundredths, for b # 0
PercentOf(a, b) == IF b < 0 THEN RoundDiv(-a * 10000, -b) ELSE RoundDiv(a * 10000, b)

\* a / b in hundredths, for b # 0
RatioOf(a, b) == IF b < 0 THEN RoundDiv(-a * 100, -b) ELSE RoundDiv(a * 100, b)

\* 'executive' in user_role.lower(), and so on; user_role = "" stands for None
RoleIs(role, word) == role # "" /\ Contains(Lower(role), word)

\* f"{i}. {item}" for the items, numbered from 1
Numbered(items) == [i \in 1..Len(items) |-> ToString(i) \o ". " \o items[i]]

\* seq with x put at its front (list.insert(0, x))
Insert0(seq, x) == <<x>> \o seq

\* datetime.now(), as its two renderings
NowDate == "2026-01-15"
NowTime == "10:30:00"

-----------------------------------------------------------------------------
(* The section template generators.  Each returns Ok(text) or Raise(error). *)

_executive_summary_template(m, fw, focus, df, role) ==
    LET intro ==
            IF RoleIs(role, "executive")
            THEN << "**Executive Summary for " \o role \o "**",
                    "This high-level analysis provides strategic insights based on "
                        \o ToString(m.row_count) \o " data points." >>
            ELSE << "This " \o fw \o " analysis report provides insights based on "
                        \o ToString(m.row_count) \o " data points." >>
        Top(calc) == << "- Total " \o calc.col \o ": " \o Fmt2f(calc.sum),
                        "- Average " \o calc.col \o ": " \o Fmt2f(calc.mean) >>
        summary == intro \o Flatten([k \in 1..Len(Take(m.calculated, 2)) |-> Top(Take(m.calculated, 2)[k])])
                     \o << "\n**Primary Focus:** " \o Title(focus),
                           "**Key Finding:** Analysis reveals patterns and opportunities for optimization." >>
    IN  Ok(Join(summary, "\n"))

revenue_words == <<"revenue", "sales", "income">>
cost_words == <<"cost", "expense", "cogs", "expenditure">>
profit_cost_words == <<"cost", "expense", "cogs">>

\* the exception the revenue section raises on column col, or "" when it raises none:
\* calc.get('sum', 'N/A') of a column without statistics is the text 'N/A', which the
\* format :.2f refuses; std / mean divides by a zero mean
RevenueColumnError(m, col) ==
    IF ~HasCalc(m, col) THEN "ValueError"
    ELSE IF Calc(m, col).std > 0 /\ Calc(m, col).mean = 0 THEN "ZeroDivisionError"
    ELSE ""

_revenue_analysis_template(m, fw, focus, df, role) ==
    LET revenue_cols == ColumnsNamed(m, revenue_words)
        used == Take(revenue_cols, 2)
        failing == {i \in 1..Len(used) : RevenueColumnError(m, used[i]) # ""}
        Lines(col) ==
            LET calc == Calc(m, col)
            IN  << "**" \o col \o " Analysis:**",
                   "- Total: " \o Fmt2f(calc.sum),
                   "- Average: " \o Fmt2f(calc.mean),
                   "- Range: " \o Fmt2f(calc.min) \o " to " \o Fmt2f(calc.max) >>
                \o (IF calc.std > 0
                    THEN << "- Variability: " \o Fmt1f(PercentOf(calc.std, calc.mean))
                               \o "% coefficient of variation" >>
                    ELSE <<>>)
    IN  IF Len(revenue_cols) > 0
        THEN IF failing # {}
             THEN Raise(RevenueColumnError(m, used[CHOOSE i \in failing : \A j \in failing : i <= j]))
             ELSE Ok(Join(Flatten([k \in 1..Len(used) |-> Lines(used[k])]), "\n"))
        ELSE Ok(Join(<< "*No revenue-specific columns identified in the data.*",
                        "*Consider adding columns with names containing 'revenue', 'sales', or 'income' for detailed revenue analysis.*" >>,
                     "\n"))

\* metrics['calculated'].get(col, {}).get('sum', 0)
SumOrZero(m, col) == IF HasCalc(m, col) THEN Calc(m, col).sum ELSE 0

RECURSIVE SumOfSums(_, _)
SumOfSums(m, cols) ==
    IF Len(cols) = 0 THEN 0 ELSE SumOrZero(m, Head(cols)) + SumOfSums(m, Tail(cols))

_cost_structure_template(m, fw, focus, df, role) ==
    LET cost_cols == ColumnsNamed(m, cost_words)
        used == Take(cost_cols, 3)
        Line(col) ==
            << "- **" \o col \o ":** " \o Fmt2f(Calc(m, col).sum) \o " total, "
                  \o Fmt2f(Calc(m, col).mean) \o " average" >>
        total == IF Len(cost_cols) > 1
                 THEN << "\n**Total Identified Costs:** " \o Fmt2f(SumOfSums(m, cost_cols)) >>
                 ELSE <<>>
    IN  IF Len(cost_cols) > 0
        THEN IF \E i \in 1..Len(used) : ~HasCalc(m, used[i])
             THEN Raise("ValueError")
             ELSE Ok(Join(<<"**Cost Structure Breakdown:**">> \o Flatten([k \in 1..Len(used) |-> Line(used[k])]) \o total, "\n"))
        ELSE Ok(Join(<< "*No cost-specific columns identified.*",
                        "*For cost analysis, include columns with 'cost', 'expense', or similar terms.*" >>,
                     "\n"))

_profitability_template(m, fw, focus, df, role) ==
    LET revenue_cols == ColumnsNamed(m, revenue_words)
        cost_cols == ColumnsNamed(m, profit_cost_words)
    IN  IF Len(revenue_cols) > 0 /\ Len(cost_cols) > 0
        THEN LET revenue == SumOrZero(m, revenue_cols[1])
                 cost == SumOrZero(m, cost_cols[1])
                 gross_profit == revenue - cost
             IN  IF revenue > 0
                 THEN LET margin == Fmt1f(PercentOf(gross_profit, revenue))
                          assessment ==
                              IF gross_profit * 100 > 30 * revenue
                              THEN "\n**Assessment:** Healthy profitability margin (" \o margin \o "%)"
                              ELSE IF gross_profit * 100 > 10 * revenue
                              THEN "\n**Assessment:** Moderate profitability (" \o margin
                                       \o "%) - room for improvement"
                              ELSE "\n**Assessment:** Low profitability (" \o margin
                                       \o "%) - requires attention"
                      IN  Ok(Join(<< "**Profitability Analysis:**",
                                     "- Gross Profit: " \o Fmt2f(gross_profit),
                                     "- Gross Margin: " \o margin \o "%",
                                     "- Revenue: " \o Fmt2f(revenue),
                                     "- Costs: " \o Fmt2f(cost),
                                     assessment >>, "\n"))
                 ELSE Ok("")
        ELSE Ok(Join(<< "*Insufficient data for detailed profitability analysis.*",
                        "*Required: Both revenue and cost columns in numeric format.*" >>, "\n"))

\* _generate_recommendations(..., as_list=False): the list of recommendations
_generate_recommendations(fw, m, focus, role) ==
    LET base ==
            IF fw = "financial"
            THEN << "Review cost structure for optimization opportunities",
                    "Analyze revenue streams for diversification potential",
                    "Monitor cash flow and working capital requirements",
                    "Conduct regular profitability analysis by product/service",
                    "Implement financial controls for expense management" >>
            ELSE IF fw = "sales"
            THEN << "Focus on improving conversion rates in key pipeline stages",
                    "Analyze win/loss reasons to improve sales effectiveness",
                    "Segment customers for targeted sales strategies",
                    "Regularly update sales forecasts based on pipeline health",
                    "Provide additional training for underperforming segments" >>
            ELSE IF fw = "operational"
            THEN << "Identify and address production bottlenecks",
                    "Implement quality control measures based on defect analysis",
                    "Optimize inventory levels to reduce carrying costs",
                    "Analyze capacity utilization for efficiency improvements",
                    "Standardize processes to reduce variability" >>
            ELSE << "Collect additional data for more comprehensive analysis",
                    "Establish regular reporting cadence for key metrics",
                    "Validate data quality before making major decisions",
                    "Cross-reference findings with operational knowledge",
                    "Set up automated data collection where possible" >>
        focused ==
            IF focus = "profit"
            THEN Insert0(base, "Prioritize profitability improvement initiatives")
            ELSE IF focus = "growth"
            THEN Insert0(base, "Focus on growth-oriented investments and strategies")
            ELSE IF focus = "loss"
            THEN Insert0(base, "Immediate cost containment and risk mitigation")
            ELSE base
    IN  IF RoleIs(role, "executive")
        THEN Insert0(SelectSeq(focused, LAMBDA rec : ~Contains(Lower(rec), "detailed")),
                     "Establish key performance indicators aligned with strategic goals")
        ELSE IF RoleIs(role, "analyst")
        THEN focused \o << "Conduct deeper statistical analysis on identified patterns",
                           "Build automated dashboards for ongoing monitoring" >>
        ELSE focused

\* _generate_recommendations(..., as_list=True): the first five, numbered
_recommendations_template(m, fw, focus, df, role) ==
    Ok(Join(Numbered(Take(_generate_recommendations(fw, m, focus, role), 5)), "\n"))

_data_overview_template(m, fw, focus, df, role) ==
    LET head == << "**Dataset Overview:**",
                   "- Total Rows: " \o ToString(m.row_count),
                   "- Total Columns: " \o ToString(m.column_count),
                   "- Numeric Columns: " \o ToString(Len(m.numeric_columns)) >>
        quality ==
            IF m.data_quality.present
            THEN << "\n**Data Quality:**",
                    "- Missing Values: " \o Fmt1f(m.data_quality.missing_percentage) \o "%",
                    "- Duplicate Rows: " \o Fmt1f(m.data_quality.duplicate_percentage) \o "%" >>
            ELSE <<>>
        coverage ==
            IF m.date_range.present
            THEN << "\n**Time Coverage:**",
                    "- From: " \o m.date_range.start,
                    "- To: " \o m.date_range.end,
                    "- Duration: " \o ToString(m.date_range.days) \o " days" >>
            ELSE <<>>
    IN  Ok(Join(head \o quality \o coverage, "\n"))

FrameworkInsight(fw) ==
    IF fw = "financial"
    THEN <<"- Financial analysis framework applied to identify revenue and cost patterns">>
    ELSE IF fw = "sales"
    THEN <<"- Sales framework used to analyze performance and conversion metrics">>
    ELSE IF fw = "operational"
    THEN <<"- Operational framework applied to assess efficiency and productivity">>
    ELSE <<>>

_key_insights_template(m, fw, focus, df, role) ==
    LET Pattern(calc) ==
            IF calc.std > 0
            THEN LET cv == IF calc.mean # 0 THEN PercentOf(calc.std, calc.mean) ELSE 0
                     high == calc.mean > 0 /\ calc.std * 100 > 50 * calc.mean
                     low == calc.mean <= 0 \/ calc.std * 100 < 10 * calc.mean
                 IN  IF high
                     THEN << "- **High variability in " \o calc.col \o ":** " \o Fmt1f(cv)
                               \o "% coefficient of variation suggests inconsistent performance" >>
                     ELSE IF low
                     THEN << "- **Stable performance in " \o calc.col \o ":** Low variability ("
                               \o Fmt1f(cv) \o "%) indicates consistent results" >>
                     ELSE <<>>
            ELSE <<>>
        quality ==
            IF m.data_quality.present /\ m.data_quality.missing_percentage > 2000
            THEN << "- **Data quality concern:** " \o Fmt1f(m.data_quality.missing_percentage)
                      \o "% missing values may affect analysis reliability" >>
            ELSE <<>>
    IN  Ok(Join(<<"**Key Insights from Data Analysis:**">>
                   \o Flatten([k \in 1..Len(Take(m.calculated, 3)) |-> Pattern(Take(m.calculated, 3)[k])]) \o quality \o FrameworkInsight(fw),
                "\n"))

\* dataframe.sort_values(date_col): the rows by ascending timestamp, missing ones last,
\* rows of equal timestamp in their order (the order of rows, as row numbers)
RECURSIVE SortRows(_, _)
SortRows(cells, left) ==
    IF left = {} THEN <<>>
    ELSE LET Before(a, b) ==
                 \/ (~IsNull(cells[a]) /\ IsNull(cells[b]))
                 \/ (~IsNull(cells[a]) /\ ~IsNull(cells[b]) /\ cells[a].n < cells[b].n)
                 \/ ((IsNull(cells[a]) <=> IsNull(cells[b]))
                        /\ (IsNull(cells[a]) \/ cells[a].n = cells[b].n) /\ a <= b)
             first == CHOOSE a \in left : \A b \in left : Before(a, b)
         IN  <<first>> \o SortRows(cells, left \ {first})

\* the trend line of _trend_analysis_template, computed inside its try block
TrendLines(m, df) ==
    LET date_col == m.date_columns[1]
        num_col == m.numeric_columns[1]
        order == SortRows(Column(df, date_col), 1..RowCount(df))
        first_val == Column(df, num_col)[order[1]]
        last_val == Column(df, num_col)[order[Len(order)]]
    IN  IF RowCount(df) > 2
        THEN IF first_val.k \in {"date", "nat"} \/ last_val.k \in {"date", "nat"}
             THEN \* the column was converted to timestamps: the arithmetic raises and
                  \* the except clause adds its line
                  <<"- Trend analysis requires proper date formatting and numeric data">>
             ELSE IF first_val.k = "na" \/ last_val.k = "na"
             THEN \* NaN != 0, NaN > 0 is false, and abs(NaN) prints as nan
                  << "- **" \o num_col \o " trend:** decreasing by nan% over the period" >>
             ELSE IF first_val.n # 0
             THEN LET trend_pct == PercentOf(last_val.n - first_val.n, first_val.n)
                      rising == (last_val.n - first_val.n > 0 /\ first_val.n > 0)
                                   \/ (last_val.n - first_val.n < 0 /\ first_val.n < 0)
                  IN  << "- **" \o num_col \o " trend:** "
                            \o (IF rising THEN "increasing" ELSE "decreasing") \o " by "
                            \o Fmt1f(Abs(trend_pct)) \o "% over the period" >>
             ELSE <<>>
        ELSE <<>>

_trend_analysis_template(m, fw, focus, df, role) ==
    LET body ==
            IF m.date_range.present /\ Len(m.calculated) > 0
            THEN << "- Data covers period from " \o m.date_range.start \o " to "
                      \o m.date_range.end >>
                 \o (IF Len(m.numeric_columns) > 0 /\ ~df.none /\ Len(m.date_columns) > 0
                     THEN TrendLines(m, df) ELSE <<>>)
            ELSE << "*Trend analysis requires date-based data with time series.*",
                    "*Ensure your data includes a date column for time-based analysis.*" >>
    IN  Ok(Join(<<"**Trend Analysis:**">> \o body, "\n"))

_risk_assessment_template(m, fw, focus, df, role) ==
    LET quality ==
            IF m.data_quality.present /\ m.data_quality.missing_percentage > 1000
            THEN << "- **Data Quality Risk:** " \o Fmt1f(m.data_quality.missing_percentage)
                      \o "% missing data may lead to inaccurate conclusions" >>
            ELSE <<>>
        Volatility(calc) ==
            IF calc.mean # 0 /\ calc.std > 0 /\ 2 * calc.std > calc.mean
            THEN << "- **Volatility Risk:** High variability in " \o calc.col \o " (std/mean = "
                      \o Fmt2f(RatioOf(calc.std, calc.mean)) \o ") indicates instability" >>
            ELSE <<>>
        specific ==
            IF fw = "financial"
            THEN <<"- **Financial Risk:** Revenue concentration or high fixed costs could impact stability">>
            ELSE IF fw = "sales"
            THEN <<"- **Sales Risk:** Pipeline gaps or low conversion rates may affect future revenue">>
            ELSE IF fw = "operational"
            THEN <<"- **Operational Risk:** Bottlenecks or quality issues could impact customer satisfaction">>
            ELSE <<>>
        strategic ==
            IF RoleIs(role, "executive")
            THEN <<"- **Strategic Risk:** Market shifts or competitive pressures not captured in current data">>
            ELSE <<>>
    IN  Ok(Join(<<"**Risk Assessment:**">> \o quality \o Flatten([k \in 1..Len(Take(m.calculated, 2)) |-> Volatility(Take(m.calculated, 2)[k])])
                   \o specific \o strategic, "\n"))

_default_section_template(m, fw, focus, df, role) ==
    Ok("Analysis of this section would provide insights into the " \o fw
          \o " aspects of the business" \o (IF role # "" THEN " for " \o role ELSE "")
          \o ". Based on the data, key metrics and patterns can be identified to support decision-making. For more detailed analysis, ensure data includes relevant columns for "
          \o fw \o " analysis.")

\* the lookup in section_templates, with _default_section_template as the default
_generate_template_section(section, m, fw, focus, df, role) ==
    IF section = "Executive Summary" THEN _executive_summary_template(m, fw, focus, df, role)
    ELSE IF section = "Revenue Analysis" THEN _revenue_analysis_template(m, fw, focus, df, role)
    ELSE IF section = "Cost Structure" THEN _cost_structure_template(m, fw, focus, df, role)
    ELSE IF section = "Profitability Metrics" THEN _profitability_template(m, fw, focus, df, role)
    ELSE IF section = "Recommendations" THEN _recommendations_template(m, fw, focus, df, role)
    ELSE IF section = "Data Overview" THEN _data_overview_template(m, fw, focus, df, role)
    ELSE IF section = "Key Insights" THEN _key_insights_template(m, fw, focus, df, role)
    ELSE IF section = "Trend Analysis" THEN _trend_analysis_template(m, fw, focus, df, role)
    ELSE IF section = "Risk Assessment" THEN _risk_assessment_template(m, fw, focus, df, role)
    ELSE _default_section_template(m, fw, focus, df, role)

_generate_next_steps(role, fw) ==
    LET base == << "Review key metrics and validate against business expectations",
                   "Implement priority recommendations within the next 30 days",
                   "Schedule follow-up analysis in 30 days to track progress",
                   "Consider collecting additional data for deeper insights" >>
        byRole ==
            IF RoleIs(role, "executive")
            THEN << "Present findings to leadership team for strategic alignment",
                    "Allocate resources based on priority recommendations" >> \o base
            ELSE IF RoleIs(role, "manager")
            THEN << "Communicate insights to team members for implementation",
                    "Set specific goals based on analysis findings" >> \o base
            ELSE IF RoleIs(role, "analyst")
            THEN <<"Document analysis methodology and assumptions">> \o base
                    \o <<"Explore additional analytical techniques for deeper insights">>
            ELSE base
    IN  byRole \o (IF fw = "financial"
                   THEN <<"Schedule financial review meeting with accounting team">>
                   ELSE IF fw = "sales"
                   THEN <<"Align sales team on identified opportunities and challenges">>
                   ELSE <<>>)

-----------------------------------------------------------------------------
(* The schema of _detect_schema and the framework of _select_framework *)

Domains == <<"financial", "sales", "operational">>

\* max(scores.values())
MaxScore(scores) ==
    CHOOSE v \in {scores[d] : d \in DOMAIN scores} : \A d \in DOMAIN scores : scores[d] <= v

\* the schema with the test max(scores.values()) > 0 written as an at-least test
SchemaOfAtLeast(scores, business_type) ==
    LET total == scores.financial + scores.sales + scores.operational
        primary == Domains[CHOOSE i \in 1..3 :
                              /\ scores[Domains[i]] = MaxScore(scores)
                              /\ \A j \in 1..(i - 1) : scores[Domains[j]] < MaxScore(scores)]
    IN  IF MaxScore(scores) >= 0
        THEN [ type |-> primary,
               confidence |-> [num |-> 1000 * scores[primary], den |-> 1000 * total + 1],
               indicators_found |-> scores, business_type |-> business_type ]
        ELSE [ type |-> "general", confidence |-> [num |-> 0, den |-> 1],
               indicators_found |-> scores, business_type |-> business_type ]

\* the schema built from the keyword scores (lines 394-408); the confidence
\* scores[primary] / (sum(scores) + 0.001) is kept as the fraction num / den
SchemaOf(scores, business_type) ==
    LET total == scores.financial + scores.sales + scores.operational
        primary == Domains[CHOOSE i \in 1..3 :
                              /\ scores[Domains[i]] = MaxScore(scores)
                              /\ \A j \in 1..(i - 1) : scores[Domains[j]] < MaxScore(scores)]
    IN  IF MaxScore(scores) > 0
        THEN [ type |-> primary,
               confidence |-> [num |-> 1000 * scores[primary], den |-> 1000 * total + 1],
               indicators_found |-> scores, business_type |-> business_type ]
        ELSE [ type |-> "general", confidence |-> [num |-> 0, den |-> 1],
               indicators_found |-> scores, business_type |-> business_type ]

financial_terms ==
    << "revenue", "profit", "cost", "margin", "expense", "budget", "cash flow",
       "balance sheet", "p&l", "income", "$", "dollar", "financial", "earning",
       "expenditure" >>
sales_terms ==
    << "lead", "deal", "customer", "pipeline", "conversion", "sales", "opportunity",
       "forecast", "quota", "win rate", "client", "prospect", "account", "territory" >>
operational_terms ==
    << "production", "inventory", "supply chain", "manufacturing", "logistics",
       "efficiency", "throughput", "quality", "operation", "process", "capacity",
       "output" >>

\* the number of places where term occurs in text
Occurrences(text, term) ==
    Cardinality({i \in 1..(Len(text) - Len(term) + 1) :
                    SubSeq(text, i, i + Len(term) - 1) = term})

RECURSIVE SumOccurrences(_, _)
SumOccurrences(terms, text) ==
    IF Len(terms) = 0 THEN 0
    ELSE Occurrences(text, Head(terms)) + SumOccurrences(Tail(terms), text)

\* the score of a term list that counts every place where a term occurs
TermScoreByOccurrence(terms, content_lower) == SumOccurrences(terms, content_lower)

\* sum(1 for term in terms if term in content_lower)
TermScore(terms, content_lower) ==
    Cardinality({i \in 1..Len(terms) : Contains(content_lower, terms[i])})

\* _detect_schema: the schema of a text
_detect_schema(content, business_type) ==
    IF content = ""
    THEN [ type |-> "general", confidence |-> [num |-> 0, den |-> 1],
           indicators_found |-> [financial |-> 0, sales |-> 0, operational |-> 0],
           business_type |-> business_type ]
    ELSE LET content_lower == Lower(content)
         IN  SchemaOf([ financial |-> TermScore(financial_terms, content_lower),
                        sales |-> TermScore(sales_terms, content_lower),
                        operational |-> TermScore(operational_terms, content_lower) ],
                      business_type)

\* f"{confidence:.1%}"
FmtPercent(conf) ==
    LET tenths == RoundDiv(1000 * conf.num, conf.den)
    IN  ToString(tenths \div 10) \o "." \o ToString(tenths % 10) \o "%"

\* the framework with the category consulted before the detected domain
_select_framework_category_first(sch, business_type) ==
    LET detected == sch.type
        business_lower == Lower(business_type)
    IN  IF HasKeyword(business_lower, <<"retail", "e-commerce", "store", "shop">>)
        THEN "sales"
        ELSE IF HasKeyword(business_lower, <<"manufacturing", "factory", "production", "plant">>)
        THEN "operational"
        ELSE IF HasKeyword(business_lower, <<"bank", "finance", "investment", "accounting">>)
        THEN "financial"
        ELSE IF detected \in Frameworks THEN detected ELSE "general"

_select_framework(sch, business_type) ==
    LET detected == sch.type
        business_lower == Lower(business_type)
    IN  IF HasKeyword(business_lower, <<"retail", "e-commerce", "store", "shop">>)
        THEN (IF detected = "general" THEN "sales"
              ELSE IF detected \in Frameworks THEN detected ELSE "general")
        ELSE IF HasKeyword(business_lower, <<"manufacturing", "factory", "production", "plant">>)
        THEN (IF detected = "general" THEN "operational"
              ELSE IF detected \in Frameworks THEN detected ELSE "general")
        ELSE IF HasKeyword(business_lower, <<"bank", "finance", "investment", "accounting">>)
        THEN (IF detected = "general" THEN "financial"
              ELSE IF detected \in Frameworks THEN detected ELSE "general")
        ELSE IF detected \in Frameworks THEN detected ELSE "general"

-----------------------------------------------------------------------------
(* The template tier: _generate_template_report *)

\* the section contents of the required sections, in order, each Ok(text) or Raise(error)
SectionResults(sections, m, fw, focus, df, role) ==
    [i \in 1..Len(sections) |-> _generate_template_section(sections[i], m, fw, focus, df, role)]

_generate_template_report(m, fw, sch, name, focus, df, role) ==
    LET template == TemplateOf(fw)
        header ==
            << "# Business Intelligence Report", "**Generated for:** " \o name >>
            \o (IF role # "" THEN <<"**User Role:** " \o role>> ELSE <<>>)
            \o << "**Date:** " \o NowDate,
                  "**Industry:** " \o sch.business_type,
                  "**Framework:** " \o Title(fw) \o " Analysis",
                  "**Focus:** " \o Title(focus),
                  "**Data Points:** " \o ToString(m.row_count),
                  "**Confidence:** " \o FmtPercent(sch.confidence) >>
        KeyMetric(calc) ==
            << "- **" \o calc.col \o ":** Sum = " \o Fmt2f(calc.sum) \o ", Avg = "
                  \o Fmt2f(calc.mean) >>
        key_metrics ==
            <<"\n## Key Metrics Summary\n">>
            \o (IF Len(m.calculated) > 0 THEN Flatten([k \in 1..Len(Take(m.calculated, 5)) |-> KeyMetric(Take(m.calculated, 5)[k])])
                ELSE <<"*No numeric metrics available for calculation*">>)
        results == SectionResults(template.sections, m, fw, focus, df, role)
        failing == {i \in 1..Len(results) : ~results[i].ok}
        Part(i) == << "\n## " \o template.sections[i] \o "\n", results[i].val >>
        sections == Flatten([i \in 1..Len(results) |-> Part(i)])
        recommendations ==
            <<"\n## Actionable Recommendations\n">>
            \o Numbered(_generate_recommendations(fw, m, focus, role))
        quality ==
            <<"\n## Data Quality Notes\n">>
            \o (IF m.data_quality.present
                THEN << "- Missing data: " \o Fmt1f(m.data_quality.missing_percentage) \o "%",
                        "- Duplicate rows: " \o Fmt1f(m.data_quality.duplicate_percentage) \o "%" >>
                ELSE <<"*Data quality assessment not available*">>)
        next_steps ==
            <<"\n## Next Steps & Further Analysis\n">> \o Numbered(_generate_next_steps(role, fw))
        footer ==
            << "\n---",
               "*Report generated automatically on " \o NowDate \o " at " \o NowTime \o "*",
               "*Method: Template-based analysis with calculated metrics*" >>
            \o (IF role # "" THEN <<"*Tailored for: " \o role \o "*">> ELSE <<>>)
    IN  IF failing # {}
        THEN Raise(results[CHOOSE i \in failing : \A j \in failing : i <= j].val)
        ELSE Ok(Join(header \o key_metrics \o sections \o recommendations \o quality
                        \o next_steps \o footer, "\n"))

-----------------------------------------------------------------------------
(* The hybrid tier: _extract_sections_from_ai, _find_section_in_ai and       *)
(* _generate_hybrid_report.  The dict of sections is a sequence of           *)
(* [name, content] records in insertion order.                               *)

\* sections[name] = content: a new key goes last, an existing key keeps its place
Put(sections, name, content) ==
    IF \E i \in 1..Len(sections) : sections[i].name = name
    THEN [i \in 1..Len(sections) |->
             IF sections[i].name = name THEN [name |-> name, content |-> content]
             ELSE sections[i]]
    ELSE Append(sections, [name |-> name, content |-> content])

\* line.startswith('## ') and not line.startswith('###')
IsHeading(line) == StartsWith(line, "## ") /\ ~StartsWith(line, "###")

\* current_section = "" stands for None (both are falsy in the code's tests)
_extract_sections_from_ai(report) ==
    LET lines == SplitLines(report)
        Flush(st) ==
            IF st.current_section # "" /\ Len(st.current_content) > 0
            THEN Put(st.sections, st.current_section, Strip(Join(st.current_content, "\n")))
            ELSE st.sections
        RECURSIVE Loop(_, _)
        Loop(i, st) ==
            IF i > Len(lines) THEN Flush(st)
            ELSE IF IsHeading(lines[i])
            THEN Loop(i + 1, [ sections |-> Flush(st),
                               current_section |-> Strip(SubSeq(lines[i], 4, Len(lines[i]))),
                               current_content |-> <<>> ])
            ELSE IF st.current_section # ""
            THEN Loop(i + 1, [st EXCEPT !.current_content = Append(@, lines[i])])
            ELSE Loop(i + 1, st)
    IN  Loop(1, [sections |-> <<>>, current_section |-> "", current_content |-> <<>>])

\* the lookup without its partial-match and keyword passes
_find_section_exact_only(section_name, sections, full_report) ==
    LET exact == {i \in 1..Len(sections) : sections[i].name = section_name}
    IN  IF exact # {} THEN sections[CHOOSE i \in exact : TRUE].content ELSE ""

_find_section_in_ai(section_name, sections, full_report) ==
    LET exact == {i \in 1..Len(sections) : sections[i].name = section_name}
        partial == {i \in 1..Len(sections) :
                       \/ Contains(Lower(sections[i].name), Lower(section_name))
                       \/ Contains(Lower(section_name), Lower(sections[i].name))}
        keywords == SplitWords(Lower(section_name))
        lines == SplitLines(full_report)
        RECURSIVE Scan(_, _, _)
        Scan(i, in_section, section_content) ==
            IF i > Len(lines) THEN section_content
            ELSE IF StartsWith(lines[i], "## ")
            THEN IF HasKeyword(lines[i], keywords)
                 THEN Scan(i + 1, TRUE, section_content)
                 ELSE IF in_section THEN section_content
                 ELSE Scan(i + 1, FALSE, section_content)
            ELSE IF in_section THEN Scan(i + 1, TRUE, Append(section_content, lines[i]))
            ELSE Scan(i + 1, FALSE, section_content)
        scanned == Scan(1, FALSE, <<>>)
    IN  IF exact # {} THEN sections[CHOOSE i \in exact : TRUE].content
        ELSE IF partial # {}
        THEN sections[CHOOSE i \in partial : \A j \in partial : i <= j].content
        ELSE IF Len(scanned) > 0 THEN Strip(Join(scanned, "\n"))
        ELSE ""

\* the content of the required sections, in order: the AI's when one is found,
\* else the section generator's (Ok(text) or Raise(error))
HybridContents(report, m, fw, focus, df, role) ==
    LET template == TemplateOf(fw)
        sections == _extract_sections_from_ai(report)
    IN  [i \in 1..Len(template.sections) |->
            LET ai_content == _find_section_in_ai(template.sections[i], sections, report)
            IN  IF ai_content # "" THEN Ok(ai_content)
                ELSE _generate_template_section(template.sections[i], m, fw, focus, df, role)]

_generate_hybrid_report(report, m, fw, sch, name, focus, df, role) ==
    LET template == TemplateOf(fw)
        header ==
            << "# Business Intelligence Report\n", "**Generated for:** " \o name \o "\n" >>
            \o (IF role # "" THEN <<"**User Role:** " \o role \o "\n">> ELSE <<>>)
            \o << "**Date:** " \o NowDate \o "\n",
                  "**Framework:** " \o Title(fw) \o " Analysis\n",
                  "**Focus:** " \o Title(focus) \o "\n" >>
        KeyMetric(calc) ==
            << "- **" \o calc.col \o ":** Total = " \o Fmt2f(calc.sum) \o ", Average = "
                  \o Fmt2f(calc.mean) >>
        key_metrics ==
            IF Len(m.calculated) > 0
            THEN <<"\n## Key Metrics at a Glance\n">> \o Flatten([k \in 1..Len(Take(m.calculated, 3)) |-> KeyMetric(Take(m.calculated, 3)[k])])
            ELSE <<>>
        results == HybridContents(report, m, fw, focus, df, role)
        failing == {i \in 1..Len(results) : ~results[i].ok}
        Part(i) == << "\n## " \o template.sections[i] \o "\n", results[i].val >>
        sections == Flatten([i \in 1..Len(results) |-> Part(i)])
        summary ==
            << "\n## Data Summary & Methodology\n",
               "- Analysis performed using hybrid AI-Template approach",
               "- Data points analyzed: " \o ToString(m.row_count),
               "- Confidence score: " \o FmtPercent(sch.confidence),
               "- User role considered: " \o (IF role # "" THEN role ELSE "Not specified"),
               "- Report generated: " \o NowDate \o " " \o NowTime >>
    IN  IF failing # {}
        THEN Raise(results[CHOOSE i \in failing : \A j \in failing : i <= j].val)
        ELSE Ok(Join(header \o key_metrics \o sections \o summary, "\n"))

-----------------------------------------------------------------------------
(* Values of the variables a specification does not use *)

NoCall == [fn |-> "none"]
NotDone == [done |-> FALSE]

IdlePure == call = NoCall /\ ret = NotDone

IdleRequest ==
    /\ pc = "idle"
    /\ ai_available = FALSE
    /\ framework = "general"
    /\ dataframe = NoDataFrame
    /\ metrics = "none"
    /\ schema = "none"
    /\ user_name = ""
    /\ user_role = ""
    /\ report_focus = "full"
    /\ content_length = 0
    /\ model = "none"
    /\ ai_report = ""
    /\ hybrid_report = ""
    /\ outcome = "none"
    /\ log = <<>>

-----------------------------------------------------------------------------
(* Sample inputs: parsed tables, keyword scores, request arguments *)

FillerColumns == 10

\* a revenue and a cost column beside a label column.  (The cell values of the sample
\* tables stay below 2000, so that the fixed-point products fit TLC's 32-bit integers.)
RevenueCostFrame ==
    Frame(<<"Region", "Revenue", "Cost">>,
          << <<Str("North"), Str("South")>>,
             <<Num(1000), Num(1200)>>,
             <<Num(700), Num(800)>> >>)

\* a revenue column whose values are all missing: numeric, but without statistics
EmptyRevenueFrame ==
    Frame(<<"Revenue", "Cost">>, << <<NA, NA>>, <<Num(1), Num(2)>> >>)

\* a cost column whose values are all missing
EmptyCostFrame ==
    Frame(<<"Revenue", "Operating Cost">>, << <<Num(5), Num(7)>>, <<NA, NA>> >>)

\* a revenue column of mean zero
ZeroMeanFrame ==
    Frame(<<"Net Income", "Expense">>, << <<Num(-4), Num(4)>>, <<Num(3), Num(3)>> >>)

\* a revenue column of negative total
LossFrame ==
    Frame(<<"Sales", "COGS">>, << <<Num(-10), Num(-30)>>, <<Num(20), NA>> >>)

\* dated rows, out of order, with a date that does not parse and a repeated row
DatedFrame ==
    Frame(<<"Order Date", "Amount", "Stage">>,
          << <<Str("2024-03-01"), Str("2024-01-15"), Str("pending"), Str("2024-01-15")>>,
             <<Num(300), Num(200), NA, Num(200)>>,
             <<Str("won"), Str("open"), Str("open"), Str("open")>> >>)

\* FillerColumns numeric columns and then a revenue column, beyond the statistics limit
WideFrame ==
    Frame([i \in 1..(FillerColumns + 1) |->
              IF i <= FillerColumns THEN "m" \o ToString(i) ELSE "Revenue"],
          [i \in 1..(FillerColumns + 1) |-> <<Num(i), Num(2 * i)>>])

\* no numeric column at all
TextFrame ==
    Frame(<<"Name", "Status">>, << <<Str("a"), Str("b")>>, <<Str("open"), Str("won")>> >>)

SampleFrames ==
    { NoDataFrame, RevenueCostFrame, EmptyRevenueFrame, EmptyCostFrame, ZeroMeanFrame,
      LossFrame, DatedFrame, WideFrame, TextFrame }

Scores(f, sa, o) == [financial |-> f, sales |-> sa, operational |-> o]

SampleScores == { Scores(0, 0, 0), Scores(2, 1, 0), Scores(1, 2, 0), Scores(0, 1, 3) }

SampleBusinessTypes == { "General Business", "Retail" }
SampleRoles == { "", "Executive", "Sales Manager", "Analyst" }
SampleFocus == { "profit", "growth", "loss", "full" }

-----------------------------------------------------------------------------
(* Sample AI outputs *)

AIBody(tag) ==
    "The " \o tag \o " figures were reviewed against the uploaded records and the "
       \o "main movements are explained below."

\* a '## ' heading line followed by its body
Sec(heading, body) == "## " \o heading \o "\n" \o body \o "\n"

AIPreamble == "# Financial Report\nPrepared from the uploaded data.\n\n"

\* every financial section under its exact heading
AIFull ==
    AIPreamble \o Sec("Executive Summary", AIBody("summary"))
       \o Sec("Revenue Analysis", AIBody("revenue")) \o Sec("Cost Structure", AIBody("cost"))
       \o Sec("Profitability Metrics", AIBody("margin"))
       \o Sec("Cash Flow Assessment", AIBody("cash"))
       \o Sec("Risk Factors", AIBody("risk")) \o Sec("Recommendations", AIBody("advice"))

\* no heading for Cost Structure, and no other heading that resembles it
AIMissingCost ==
    AIPreamble \o Sec("Executive Summary", AIBody("summary"))
       \o Sec("Revenue Analysis", AIBody("revenue"))
       \o Sec("Profitability Metrics", AIBody("margin"))
       \o Sec("Cash Flow Assessment", AIBody("cash"))
       \o Sec("Risk Factors", AIBody("risk")) \o Sec("Recommendations", AIBody("advice"))

\* no heading for Profitability Metrics, but a dashboard heading sharing the word metrics
AIKeyMetrics ==
    AIPreamble \o Sec("Executive Summary", AIBody("summary"))
       \o Sec("Key Metrics Dashboard", AIBody("dashboard"))
       \o Sec("Revenue Analysis", AIBody("revenue")) \o Sec("Cost Structure", AIBody("cost"))
       \o Sec("Cash Flow Assessment", AIBody("cash"))
       \o Sec("Risk Factors", AIBody("risk")) \o Sec("Recommendations", AIBody("advice"))

\* headings that only resemble the required ones
AIRenamed ==
    Sec("1. Executive Summary", AIBody("summary")) \o Sec("Revenue", AIBody("revenue"))
       \o Sec("Risk Overview", AIBody("risk")) \o Sec("Other Factors", AIBody("factor"))
       \o Sec("Appendix", AIBody("appendix"))

\* headings with blank or missing bodies, a heading without a name, a repeated heading
AIBlank ==
    "## Executive Summary\n\n\n## Revenue Analysis\n## Cost Structure\n  kept  \n## \nlost\n"
       \o "## Recommendations\nfirst\n## Recommendations\nsecond"

\* two non-answer phrases inside a section
AIGeneric ==
    AIPreamble
       \o Sec("Executive Summary",
              "As an AI language model I cannot provide a full assessment. " \o AIBody("summary"))
       \o Sec("Revenue Analysis", AIBody("revenue")) \o Sec("Cost Structure", AIBody("cost"))
       \o Sec("Recommendations", AIBody("advice"))

\* two non-answer phrases ahead of the first heading
AIGenericPreamble ==
    "As an AI language model I cannot provide certainty.\n"
       \o Sec("Executive Summary", AIBody("summary"))
       \o Sec("Revenue Analysis", AIBody("revenue")) \o Sec("Cost Structure", AIBody("cost"))
       \o Sec("Recommendations", AIBody("advice"))

AIShort == "## Summary\nAll good."
AIPlain == "The data looks fine overall and nothing stands out."
AIEmpty == ""

SampleAITexts ==
    { AIFull, AIMissingCost, AIKeyMetrics, AIRenamed, AIBlank, AIGeneric, AIGenericPreamble,
      AIShort, AIPlain, AIEmpty }

-----------------------------------------------------------------------------
(* The AI attempt and the orchestrator: _select_model, _generate_ai_report,    *)
(* _generate_with_fallback and the tail of generate_report.                   *)

MODELS ==
    [ high_quality |-> "llama-3.3-70b-versatile",
      fast |-> "mixtral-8x7b-32768",
      balanced |-> "llama-3.1-8b-instant" ]

LargeContent == 10000
LargeRows == 1000
MediumContent == 5000
MediumRows == 500

\* the model chosen with the size tests written as at-least tests
_select_model_at_least(length, m) ==
    IF length >= LargeContent \/ m.row_count >= LargeRows THEN MODELS.fast
    ELSE IF length >= MediumContent \/ m.row_count >= MediumRows THEN MODELS.balanced
    ELSE MODELS.high_quality

\* length is len(data_content)
_select_model(length, m) ==
    IF length > LargeContent \/ m.row_count > LargeRows THEN MODELS.fast
    ELSE IF length > MediumContent \/ m.row_count > MediumRows THEN MODELS.balanced
    ELSE MODELS.high_quality

\* str(e) of the errors that occur here
ErrorMessage(e) ==
    IF e = "ValueError" THEN "Unknown format code 'f' for object of type 'str'"
    ELSE IF e = "ZeroDivisionError" THEN "float division by zero"
    ELSE IF e = "AttributeError" THEN "'DataFrame' object has no attribute 'dtype'"
    ELSE IF e = "TypeError" THEN "cannot convert the series to <class 'float'>"
    ELSE e

\* traceback.format_exc(), as far as the report shows it
ErrorTrace(e) == "Traceback (most recent call last):\n" \o e \o ": " \o ErrorMessage(e)

\* the Markdown code fence (three grave accents), written with apostrophes
Fence == "'''"

_generate_error_report(error_message, data_sample, error_trace) ==
    Join(<< "# ⚠ Report Generation Error",
            "**Time:** " \o NowDate \o " " \o NowTime,
            "**Error:** " \o error_message >>
         \o (IF error_trace # ""
             THEN << "\n**Technical Details:**",
                     Fence \o "\n" \o Take(error_trace, 500) \o "\n" \o Fence >>
             ELSE <<>>)
         \o << "\n**Data Sample (first 500 chars):**",
               Fence \o "\n" \o data_sample \o "\n" \o Fence,
               "\n## Recommended Actions:",
               "1. Check your data format (CSV, JSON, or structured text)",
               "2. Verify data contains numeric columns for analysis",
               "3. Ensure internet connectivity if using AI features",
               "4. Try reducing data size if it's very large",
               "5. Contact support with the error details above",
               "\n---",
               "*This error report was automatically generated*" >>, "\n")

\* one entry of the log of calls
Entry(op, arg, ok) == [op |-> op, arg |-> arg, ok |-> ok]

\* if self.ai_available and self.client: __init__ sets both or neither
UseAIAlways == TRUE

UseAI == ai_available

\* where an exception raised inside the try block of _generate_with_fallback goes:
\* to its except clause, which calls the template tier
ExceptHandlerHybrid == "hybrid"

ExceptHandler == "except"

\* the template tier on the request at hand
TemplateNow ==
    _generate_template_report(metrics, framework, schema, user_name, report_focus,
                              dataframe, user_role)

\* the hybrid tier on the request at hand and the AI text received
HybridNow ==
    _generate_hybrid_report(ai_report, metrics, framework, schema, user_name,
                            report_focus, dataframe, user_role)

\* the texts the generation collaborator answers with
AIAnswers == { AIFull, AIGeneric, AIGenericPreamble, AIShort, AIEmpty }

\* the first column whose name contains one of the keywords, or "" when there is none
FirstColumnWith(df, keywords) ==
    LET idx == {i \in 1..Len(df.columns) : HasKeyword(df.columns[i], keywords)}
    IN  IF idx = {} THEN "" ELSE df.columns[CHOOSE i \in idx : \A j \in idx : i <= j]

revenue_keywords == <<"revenue", "sales", "income", "gross">>
cost_keywords == <<"cost", "expense", "cogs", "operating">>

\* [col for col in cols if any(kw in col.lower() for kw in keywords)]
ColumnsWith(cols, keywords) == SelectSeq(cols, LAMBDA col : HasKeyword(col, keywords))

\* df[col].sum(): the missing values are skipped
ColumnTotal(df, col) == SumCells(DropNa(Column(df, col)))

\* a key the analysis does not hold
NoGrossMargin == [present |-> FALSE, value |-> 0, percentage |-> 0]
NoFigure == [present |-> FALSE, nan |-> FALSE, value |-> 0]
Figure(h) == [present |-> TRUE, nan |-> FALSE, value |-> h]
NanFigure == [present |-> TRUE, nan |-> TRUE, value |-> 0]

\* _financial_framework: the gross margin of the first revenue-like and the first
\* cost-like numeric column (value and percentage in hundredths), and the growth of
\* the revenue from the first to the last row by date.  Both are computed inside bare
\* handlers: with a column name that occurs twice df[col].sum() is a series, float()
\* raises, and the key is left out
_financial_framework(df) ==
    LET numeric_cols == NumericColumns(df)
        revenue_cols == ColumnsWith(numeric_cols, revenue_keywords)
        cost_cols == ColumnsWith(numeric_cols, cost_keywords)
        date_cols == ColumnsWith(df.columns, <<"date">>)
        revenue == ColumnTotal(df, revenue_cols[1])
        cost == ColumnTotal(df, cost_cols[1])
        order == SortRows(Column(df, date_cols[1]), 1..RowCount(df))
        first_rev == Column(df, revenue_cols[1])[order[1]]
        last_rev == Column(df, revenue_cols[1])[order[Len(order)]]
    IN  IF df.none \/ RowCount(df) = 0
        THEN [gross_margin |-> NoGrossMargin, revenue_growth |-> NoFigure]
        ELSE [ gross_margin |->
                 IF Len(revenue_cols) > 0 /\ Len(cost_cols) > 0
                       /\ ~Duplicated(df, revenue_cols[1]) /\ ~Duplicated(df, cost_cols[1])
                 THEN [ present |-> TRUE,
                        value |-> 100 * (revenue - cost),
                        percentage |-> IF revenue # 0 THEN PercentOf(revenue - cost, revenue)
                                       ELSE 0 ]
                 ELSE NoGrossMargin,
               revenue_growth |->
                 IF Len(date_cols) > 0 /\ Len(revenue_cols) > 0
                       /\ ~Duplicated(df, date_cols[1]) /\ ~Duplicated(df, revenue_cols[1])
                       /\ RowCount(df) > 1
                 THEN (IF IsNull(first_rev) \/ IsNull(last_rev) THEN NanFigure
                       ELSE IF first_rev.n # 0
                       THEN Figure(PercentOf(last_rev.n - first_rev.n, first_rev.n))
                       ELSE NoFigure)
                 ELSE NoFigure ]

\* df[stage_col].unique()[:10] and the number of rows equal to each (a missing value
\* equals no row); the stages are kept as cells
StageDistribution(cells) ==
    LET firsts == SelectSeq([r \in 1..Len(cells) |-> r],
                            LAMBDA r : \A q \in 1..(r - 1) : cells[q] # cells[r])
    IN  [k \in 1..(IF Len(firsts) < 10 THEN Len(firsts) ELSE 10) |->
            [ stage |-> cells[firsts[k]],
              count |-> IF IsNull(cells[firsts[k]]) THEN 0
                        ELSE Cardinality({r \in 1..Len(cells) : cells[r] = cells[firsts[k]]}) ]]

\* _sales_framework, when it returns: the stage distribution of the first stage-like
\* column, and the mean and the total (in hundredths) of amount_cols[0], where
\* amount_cols is df.select_dtypes(include=[np.number]).columns; amount_keywords is
\* assigned and not read
_sales_framework(df) ==
    LET stage_cols == ColumnsWith(df.columns, <<"stage", "status", "phase">>)
        amount_cols == NumericColumns(df)
        amounts == DropNa(Column(df, amount_cols[1]))
    IN  IF df.none \/ RowCount(df) = 0
        THEN [ has_stages |-> FALSE, stage_column |-> "", stage_distribution |-> <<>>,
               amount_column |-> "", average_amount |-> NoFigure, total_amount |-> NoFigure ]
        ELSE [ has_stages |-> Len(stage_cols) > 0,
               stage_column |-> IF Len(stage_cols) > 0 THEN stage_cols[1] ELSE "",
               stage_distribution |->
                   IF Len(stage_cols) > 0 THEN StageDistribution(Column(df, stage_cols[1]))
                   ELSE <<>>,
               amount_column |-> IF Len(amount_cols) > 0 THEN amount_cols[1] ELSE "",
               average_amount |->
                   IF Len(amount_cols) = 0 THEN NoFigure
                   ELSE IF Len(amounts) = 0 THEN NanFigure
                   ELSE Figure(RoundDiv(100 * SumCells(amounts), Len(amounts))),
               total_amount |->
                   IF Len(amount_cols) = 0 THEN NoFigure
                   ELSE Figure(100 * SumCells(amounts)) ]

\* step 4, self.FRAMEWORKS[framework](df, metrics), as far as generate_report depends
\* on it: the analysis is read by the prompt builder only, so what matters is whether
\* the call returns.  A column name that occurs twice makes df[col] a table: the
\* general analysis reads its dtype (AttributeError); the sales analysis calls unique()
\* on a stage column (AttributeError) and float() on the mean of the first numeric
\* column (TypeError); the operational analysis calls float() on the mean of the first
\* five numeric columns (TypeError) and tests std() > mean() * 0.5 on every numeric
\* column (ValueError).  The financial analysis reads its columns inside handlers.
FrameworkAnalysis(fw, df) ==
    LET numeric_cols == NumericColumns(df)
        stage_col == FirstColumnWith(df, <<"stage", "status", "phase">>)
        Twice(cols) == \E i \in 1..Len(cols) : Duplicated(df, cols[i])
    IN  IF fw = "financial" THEN Ok(_financial_framework(df))
        ELSE IF fw = "sales"
        THEN (IF df.none \/ RowCount(df) = 0 THEN Ok(_sales_framework(df))
              ELSE IF stage_col # "" /\ Duplicated(df, stage_col) THEN Raise("AttributeError")
              ELSE IF Twice(Take(numeric_cols, 1)) THEN Raise("TypeError")
              ELSE Ok(_sales_framework(df)))
        ELSE IF fw = "operational"
        THEN (IF df.none \/ RowCount(df) = 0 THEN Ok("analysis")
              ELSE IF Twice(Take(numeric_cols, 5)) THEN Raise("TypeError")
              ELSE IF Twice(numeric_cols) THEN Raise("ValueError")
              ELSE Ok("analysis"))
        ELSE IF ~df.none /\ Twice(df.columns) THEN Raise("AttributeError")
        ELSE Ok("analysis")

\* the lines _convert_to_html tells apart
IsHeaderLine(line) ==
    StartsWith(line, "# ") \/ StartsWith(line, "## ") \/ StartsWith(line, "### ")
IsBulletLine(line) ==
    ~IsHeaderLine(line) /\ (StartsWith(Strip(line), "- ") \/ StartsWith(Strip(line), "* "))
IsNumberLine(line) ==
    ~IsHeaderLine(line) /\ ~IsBulletLine(line) /\ StartsWith(Strip(line), "1. ")

\* in_list when the loop reaches line i: a header line leaves it as it was
RECURSIVE InList(_, _)
InList(lines, i) ==
    IF i = 1 THEN FALSE
    ELSE IF IsHeaderLine(lines[i - 1]) THEN InList(lines, i - 1)
    ELSE IsBulletLine(lines[i - 1]) \/ IsNumberLine(lines[i - 1])

\* what the loop appends to html for line i
HtmlOfLine(lines, i) ==
    LET line == lines[i]
        stripped == Strip(line)
    IN  IF StartsWith(line, "# ") THEN "<h1>" \o SubSeq(line, 3, Len(line)) \o "</h1>"
        ELSE IF StartsWith(line, "## ") THEN "<h2>" \o SubSeq(line, 4, Len(line)) \o "</h2>"
        ELSE IF StartsWith(line, "### ") THEN "<h3>" \o SubSeq(line, 5, Len(line)) \o "</h3>"
        ELSE IF IsBulletLine(line)
        THEN (IF InList(lines, i) THEN "" ELSE "<ul>")
                \o "<li>" \o SubSeq(stripped, 3, Len(stripped)) \o "</li>"
        ELSE IF IsNumberLine(line)
        THEN (IF InList(lines, i) THEN "" ELSE "<ol>")
                \o "<li>" \o SubSeq(stripped, 4, Len(stripped)) \o "</li>"
        ELSE (IF InList(lines, i) THEN "</ol>" ELSE "")
                \o (IF stripped # "" THEN "<p>" \o stripped \o "</p>" ELSE "<br>")

\* the document the body is wrapped in
HtmlHead ==
    "<!DOCTYPE html>\n<html>\n<head>\n    <meta charset=\"UTF-8\">\n"
       \o "    <meta name=\"viewport\" content=\"width=device-width, initial-scale=1.0\">\n"
       \o "    <title>Business Intelligence Report</title>\n    <style>\n"
       \o "        body { font-family: Arial, sans-serif; line-height: 1.6; margin: 40px; }\n"
       \o "        h1 { color: #2c3e50; border-bottom: 2px solid #3498db; padding-bottom: 10px; }\n"
       \o "        h2 { color: #34495e; margin-top: 30px; }\n"
       \o "        h3 { color: #7f8c8d; }\n"
       \o "        ul, ol { margin-left: 20px; }\n"
       \o "        li { margin-bottom: 5px; }\n"
       \o "        p { margin-bottom: 15px; }\n"
       \o "        .metadata { background-color: #f8f9fa; padding: 15px; border-left: 4px solid #3498db; margin: 20px 0; }\n"
       \o "        .highlight { background-color: #fffacd; padding: 2px 5px; }\n"
       \o "    </style>\n</head>\n<body>\n"
HtmlFoot == "\n</body>\n</html>"

\* the body of the document for the lines of a report
HtmlBody(lines) ==
    Join([i \in 1..Len(lines) |-> HtmlOfLine(lines, i)], "")
       \o (IF InList(lines, Len(lines) + 1) THEN "</ul>" ELSE "")

_convert_to_html(markdown_report) ==
    IF markdown_report = "" THEN ""
    ELSE HtmlHead \o HtmlBody(SplitLines(markdown_report)) \o HtmlFoot

\* json.loads(content), as far as it returns or raises, on the JSON the inputs hold:
\* objects, arrays, texts without escapes, whole numbers, true, false and null.  The
\* operators give the position after the item that starts at i, or 0 when there is none
SkipWs(s, i) ==
    IF \E j \in i..Len(s) : ~IsSpace(Char(s, j))
    THEN CHOOSE j \in i..Len(s) : ~IsSpace(Char(s, j)) /\ \A k \in i..(j - 1) : IsSpace(Char(s, k))
    ELSE Len(s) + 1

JsonStringEnd(s, i) ==
    IF i <= Len(s) /\ Char(s, i) = "\"" /\ (\E j \in (i + 1)..Len(s) : Char(s, j) = "\"")
    THEN 1 + CHOOSE j \in (i + 1)..Len(s) :
                 Char(s, j) = "\"" /\ \A k \in (i + 1)..(j - 1) : Char(s, k) # "\""
    ELSE 0

JsonNumberEnd(s, i) ==
    LET from == IF Char(s, i) = "-" THEN i + 1 ELSE i
        to == IF \E j \in from..Len(s) : ~IsDigit(Char(s, j))
              THEN CHOOSE j \in from..Len(s) :
                       ~IsDigit(Char(s, j)) /\ \A k \in from..(j - 1) : IsDigit(Char(s, k))
              ELSE Len(s) + 1
    IN  IF to > from /\ (to - from = 1 \/ Char(s, from) # "0") THEN to ELSE 0

JsonLiteralEnd(s, i) ==
    IF i + 3 <= Len(s) /\ SubSeq(s, i, i + 3) \in {"true", "null"} THEN i + 4
    ELSE IF i + 4 <= Len(s) /\ SubSeq(s, i, i + 4) = "false" THEN i + 5
    ELSE 0

RECURSIVE JsonValueEnd(_, _)
RECURSIVE JsonMembersEnd(_, _, _)
RECURSIVE JsonElementsEnd(_, _, _)

JsonValueEnd(s, at) ==
    LET i == SkipWs(s, at)
    IN  IF i > Len(s) THEN 0
        ELSE IF Char(s, i) = "{" THEN JsonMembersEnd(s, SkipWs(s, i + 1), TRUE)
        ELSE IF Char(s, i) = "[" THEN JsonElementsEnd(s, SkipWs(s, i + 1), TRUE)
        ELSE IF Char(s, i) = "\"" THEN JsonStringEnd(s, i)
        ELSE IF Char(s, i) = "-" \/ IsDigit(Char(s, i)) THEN JsonNumberEnd(s, i)
        ELSE JsonLiteralEnd(s, i)

\* the members of an object from position i on, up to and with the closing brace
JsonMembersEnd(s, i, first) ==
    IF i > Len(s) THEN 0
    ELSE IF first /\ Char(s, i) = "}" THEN i + 1
    ELSE LET key == JsonStringEnd(s, i)
             colon == SkipWs(s, key)
             value == JsonValueEnd(s, colon + 1)
             next == SkipWs(s, value)
         IN  IF key = 0 \/ colon > Len(s) THEN 0
             ELSE IF Char(s, colon) # ":" THEN 0
             ELSE IF value = 0 \/ next > Len(s) THEN 0
             ELSE IF Char(s, next) = "}" THEN next + 1
             ELSE IF Char(s, next) = "," THEN JsonMembersEnd(s, SkipWs(s, next + 1), FALSE)
             ELSE 0

\* the elements of an array from position i on, up to and with the closing bracket
JsonElementsEnd(s, i, first) ==
    IF i > Len(s) THEN 0
    ELSE IF first /\ Char(s, i) = "]" THEN i + 1
    ELSE LET value == JsonValueEnd(s, i)
             next == SkipWs(s, value)
         IN  IF value = 0 \/ next > Len(s) THEN 0
             ELSE IF Char(s, next) = "]" THEN next + 1
             ELSE IF Char(s, next) = "," THEN JsonElementsEnd(s, SkipWs(s, next + 1), FALSE)
             ELSE 0

\* json.loads(content) returns
json_loads_ok(content) ==
    LET end == JsonValueEnd(content, 1)
    IN  end # 0 /\ SkipWs(content, end) > Len(content)

EndsWith(s, p) == Len(s) >= Len(p) /\ SubSeq(s, Len(s) - Len(p) + 1, Len(s)) = p

\* _detect_data_type: 'csv' needs more than one line
_detect_data_type(content) ==
    IF content = "" \/ Len(Strip(content)) = 0 THEN "text"
    ELSE LET lines == SplitLines(Strip(content))
             content_stripped == Strip(content)
         IN  IF Len(lines) > 1 /\ Contains(lines[1], ",") /\ Len(SplitBy(lines[1], ",")) > 1
             THEN "csv"
             ELSE IF Len(lines) > 1 /\ Contains(lines[1], "\t")
                        /\ Len(SplitBy(lines[1], "\t")) > 1
             THEN "csv"
             ELSE IF ((StartsWith(content_stripped, "{") /\ EndsWith(content_stripped, "}"))
                        \/ (StartsWith(content_stripped, "[") /\ EndsWith(content_stripped, "]")))
                       /\ json_loads_ok(content)
             THEN "json"
             ELSE "text"

\* data_content[:500], the input sample of the error report
ErrorSampleWhole(data_content) == data_content

ErrorSample(data_content) == Take(data_content, 500)

\* the except clause of generate_report for the error e
ErrorReportNow(e) ==
    _generate_error_report(ErrorMessage(e), ErrorSample(call.data_content), ErrorTrace(e))

\* generate_report, steps 1 to 5: schema, metrics, framework analysis, focus.  When the
\* framework analysis raises, the except clause of generate_report is next
Prepare ==
    /\ pc = "start"
    /\ \E sch \in {_detect_schema(call.data_content, call.business_type)} :
       \E data_type \in {IF call.data_type = "auto"
                          THEN _detect_data_type(call.data_content) ELSE call.data_type} :
       \E extract \in {_extract_metrics(call.data_content, data_type)} :
       \E fw \in {_select_framework(sch, call.business_type)} :
       \E analysis \in {FrameworkAnalysis(fw, extract.df)} :
           /\ schema' = sch
           /\ dataframe' = extract.df
           /\ metrics' = extract.metrics
           /\ framework' = fw
           /\ IF analysis.ok
              THEN /\ report_focus' = IF call.report_focus = "auto"
                                      THEN TemplateOf(fw).default_focus
                                      ELSE call.report_focus
                   /\ outcome' = outcome
                   /\ pc' = "fallback"
              ELSE /\ report_focus' = report_focus
                   /\ outcome' = [tier |-> "error", result |-> analysis]
                   /\ pc' = "raised"
    /\ user_name' = call.user_name
    /\ user_role' = call.user_role
    /\ content_length' = Len(call.data_content)
    /\ UNCHANGED <<call, ret, ai_available, model, ai_report, hybrid_report, log>>

\* _generate_ai_report up to its first call: the model is selected, the prompts built
SelectModel ==
    /\ pc = "fallback"
    /\ UseAI
    /\ model' = _select_model(content_length, metrics)
    /\ pc' = "ai_call"
    /\ UNCHANGED <<pureVars, reqVars, ai_report, hybrid_report, outcome, log>>

\* the first call of the collaborator returns a text
AICallReturns ==
    /\ pc = "ai_call"
    /\ \E text \in AIAnswers : ai_report' = text
    /\ log' = Append(log, Entry("ai_call", model, TRUE))
    /\ pc' = "validate_ai"
    /\ UNCHANGED <<pureVars, reqVars, model, hybrid_report, outcome>>

\* the first call raises: one more call with the fast model, unless it was the fast model
AICallRaises ==
    /\ pc = "ai_call"
    /\ log' = Append(log, Entry("ai_call", model, FALSE))
    /\ pc' = IF model # MODELS.fast THEN "ai_retry" ELSE ExceptHandler
    /\ UNCHANGED <<pureVars, reqVars, model, ai_report, hybrid_report, outcome>>

\* the call with the fast model returns a text
AIRetryReturns ==
    /\ pc = "ai_retry"
    /\ \E text \in AIAnswers : ai_report' = text
    /\ log' = Append(log, Entry("ai_call", MODELS.fast, TRUE))
    /\ pc' = "validate_ai"
    /\ UNCHANGED <<pureVars, reqVars, model, hybrid_report, outcome>>

\* the call with the fast model raises too: the error is raised to the orchestrator
AIRetryRaises ==
    /\ pc = "ai_retry"
    /\ log' = Append(log, Entry("ai_call", MODELS.fast, FALSE))
    /\ pc' = ExceptHandler
    /\ UNCHANGED <<pureVars, reqVars, model, ai_report, hybrid_report, outcome>>

\* if self._validate_report(ai_report): return ai_report
ValidateAI ==
    /\ pc = "validate_ai"
    /\ log' = Append(log, Entry("validate", "ai", _validate_report(ai_report)))
    /\ IF _validate_report(ai_report)
       THEN outcome' = [tier |-> "ai", result |-> Ok(ai_report)] /\ pc' = "return"
       ELSE outcome' = outcome /\ pc' = "hybrid"
    /\ UNCHANGED <<pureVars, reqVars, model, ai_report, hybrid_report>>

\* hybrid_report = self._generate_hybrid_report(...)
Hybrid ==
    /\ pc = "hybrid"
    /\ \E hybrid \in {HybridNow} :
           /\ log' = Append(log, Entry("hybrid", "", hybrid.ok))
           /\ IF hybrid.ok
              THEN hybrid_report' = hybrid.val /\ pc' = "validate_hybrid"
              ELSE hybrid_report' = hybrid_report /\ pc' = ExceptHandler
    /\ UNCHANGED <<pureVars, reqVars, model, ai_report, outcome>>

\* if self._validate_report(hybrid_report): return hybrid_report
ValidateHybrid ==
    /\ pc = "validate_hybrid"
    /\ log' = Append(log, Entry("validate", "hybrid", _validate_report(hybrid_report)))
    /\ IF _validate_report(hybrid_report)
       THEN outcome' = [tier |-> "hybrid", result |-> Ok(hybrid_report)] /\ pc' = "return"
       ELSE outcome' = outcome /\ pc' = "template_in_try"
    /\ UNCHANGED <<pureVars, reqVars, model, ai_report, hybrid_report>>

\* the template tier called inside the try block, after the hybrid report was rejected
TemplateInTry ==
    /\ pc = "template_in_try"
    /\ \E template \in {TemplateNow} :
           /\ log' = Append(log, Entry("template", "try", template.ok))
           /\ IF template.ok
              THEN outcome' = [tier |-> "template", result |-> template] /\ pc' = "return"
              ELSE outcome' = outcome /\ pc' = ExceptHandler
    /\ UNCHANGED <<pureVars, reqVars, model, ai_report, hybrid_report>>

\* the except clause: the template tier; what it raises leaves _generate_with_fallback
TemplateExcept ==
    /\ pc = "except"
    /\ \E template \in {TemplateNow} :
           /\ log' = Append(log, Entry("template", "except", template.ok))
           /\ outcome' = [tier |-> "template", result |-> template]
    /\ pc' = "return"
    /\ UNCHANGED <<pureVars, reqVars, model, ai_report, hybrid_report>>

\* the else branch: no AI, the template tier
TemplateNoAI ==
    /\ pc = "fallback"
    /\ ~UseAI
    /\ \E template \in {TemplateNow} :
           /\ log' = Append(log, Entry("template", "no_ai", template.ok))
           /\ outcome' = [tier |-> "template", result |-> template]
    /\ pc' = "return"
    /\ UNCHANGED <<pureVars, reqVars, model, ai_report, hybrid_report>>

\* generate_report after _generate_with_fallback: step 7 for the report it returned
\* (result is the report, returned is what the caller gets), or the except clause for
\* what it raised
Return ==
    /\ pc = "return"
    /\ \E report \in {IF outcome.result.ok THEN outcome.result.val
                       ELSE ErrorReportNow(outcome.result.val)} :
           ret' = [ done |-> TRUE,
                    error |-> ~outcome.result.ok,
                    result |-> report,
                    returned |-> IF outcome.result.ok /\ call.output_format = "html"
                                 THEN _convert_to_html(report) ELSE report ]
    /\ pc' = "done"
    /\ UNCHANGED <<call, reqVars, model, ai_report, hybrid_report, outcome, log>>

\* the except clause of generate_report for an error raised before
\* _generate_with_fallback was called
Fail ==
    /\ pc = "raised"
    /\ \E report \in {ErrorReportNow(outcome.result.val)} :
           ret' = [done |-> TRUE, error |-> TRUE, result |-> report, returned |-> report]
    /\ pc' = "failed"
    /\ UNCHANGED <<call, reqVars, model, ai_report, hybrid_report, outcome, log>>

-----------------------------------------------------------------------------
(* Specification SpecTemplate: the template tier applied to sample requests *)

TemplateCalls ==
    { [ fn |-> "_generate_template_report", df |-> f, scores |-> sc, business_type |-> b,
        focus |-> fo, role |-> r ] :
        f \in SampleFrames, sc \in SampleScores, b \in SampleBusinessTypes,
        fo \in SampleFocus, r \in SampleRoles }

CallSchema == SchemaOf(call.scores, call.business_type)
CallFramework == _select_framework(CallSchema, call.business_type)
CallExtract == ExtractFromFrame(call.df)

InitTemplate ==
    /\ call \in TemplateCalls
    /\ ret = NotDone
    /\ IdleRequest

TemplateCall ==
    /\ call.fn = "_generate_template_report"
    /\ ~ret.done
    /\ ret' = [ done |-> TRUE,
                result |-> _generate_template_report(CallExtract.metrics, CallFramework,
                               CallSchema, "Acme", call.focus, CallExtract.df, call.role) ]
    /\ UNCHANGED <<call, reqVars, runVars>>

NextTemplate == TemplateCall

SpecTemplate == InitTemplate /\ [][NextTemplate]_vars

\* C1: for every framework and every metrics bundle the extractor can return (also one
\* in which a revenue-like or cost-like numeric column has no statistics entry), the
\* template tier returns without raising, and its text is non-empty and contains every
\* section name the framework requires.
C1_TemplateNeverRaises ==
    ret.done =>
        /\ ret.result.ok
        /\ ret.result.val # ""
        /\ \A i \in 1..Len(TemplateOf(CallFramework).sections) :
              Contains(ret.result.val, TemplateOf(CallFramework).sections[i])

\* C14: each section generator of the template tier, called for a section its
\* framework requires with any metrics bundle the extractor can return, returns
\* non-empty text without raising.
C14_SectionGeneratorsNeverRaise ==
    ret.done =>
        \A i \in 1..Len(TemplateOf(CallFramework).sections) :
            \E section \in {_generate_template_section(
                                TemplateOf(CallFramework).sections[i], CallExtract.metrics,
                                CallFramework, call.focus, CallExtract.df, call.role)} :
                section.ok /\ section.val # ""

-----------------------------------------------------------------------------
(* Specification SpecHybrid: the hybrid tier applied to sample AI outputs *)

HybridFrames == { NoDataFrame, RevenueCostFrame, EmptyRevenueFrame, EmptyCostFrame }

HybridCalls ==
    { [ fn |-> "_generate_hybrid_report", ai |-> t, df |-> f, scores |-> sc,
        business_type |-> "General Business", focus |-> "profit", role |-> r ] :
        t \in SampleAITexts, f \in HybridFrames, sc \in SampleScores,
        r \in {"", "Analyst"} }

InitHybrid ==
    /\ call \in HybridCalls
    /\ ret = NotDone
    /\ IdleRequest

HybridCall ==
    /\ call.fn = "_generate_hybrid_report"
    /\ ~ret.done
    /\ ret' = [ done |-> TRUE,
                result |-> _generate_hybrid_report(call.ai, CallExtract.metrics,
                               CallFramework, CallSchema, "Acme", call.focus,
                               CallExtract.df, call.role) ]
    /\ UNCHANGED <<call, reqVars, runVars>>

NextHybrid == HybridCall

SpecHybrid == InitHybrid /\ [][NextHybrid]_vars

\* the required sections of the call, and what the generator of the i-th one yields
CallSections == TemplateOf(CallFramework).sections

Generated(i) ==
    _generate_template_section(CallSections[i], CallExtract.metrics, CallFramework,
                               call.focus, CallExtract.df, call.role)

\* the elements of a set of numbers, in ascending order
RECURSIVE Ascending(_)
Ascending(S) ==
    IF S = {} THEN <<>>
    ELSE LET least == CHOOSE x \in S : \A y \in S : x <= y
         IN  <<least>> \o Ascending(S \ {least})

\* the '## ' headings of a text in order: the heading line, its trimmed name, the
\* lines under it up to the next heading, and its body (those lines joined and trimmed)
AIHeadings(t) ==
    LET lines == SplitLines(t)
        at == Ascending({i \in 1..Len(lines) : StartsWith(lines[i], "## ")})
        Until(k) == IF k < Len(at) THEN at[k + 1] - 1 ELSE Len(lines)
    IN  [k \in 1..Len(at) |->
            [ line |-> lines[at[k]],
              name |-> Strip(SubSeq(lines[at[k]], 4, Len(lines[at[k]]))),
              under |-> SubSeq(lines, at[k] + 1, Until(k)),
              body |-> Strip(Join(SubSeq(lines, at[k] + 1, Until(k)), "\n")) ]]

\* the headings that are kept: those with a name and at least one line under them
Kept(H) == {k \in 1..Len(H) : H[k].name # "" /\ Len(H[k].under) > 0}

\* the kept headings that carry a given name
Named(H, name) == {k \in Kept(H) : H[k].name = name}

\* the body kept for a name: that of the last kept heading carrying it
BodyOf(H, name) == H[CHOOSE k \in Named(H, name) : \A j \in Named(H, name) : j <= k].body

\* the kept headings whose name contains the section's name or is contained in it
Resembling(H, section) ==
    {k \in Kept(H) :
        \/ Contains(Lower(H[k].name), Lower(section))
        \/ Contains(Lower(section), Lower(H[k].name))}

\* the headings whose line holds a word of the section's name
Worded(H, section) ==
    {k \in 1..Len(H) : HasKeyword(H[k].line, SplitWords(Lower(section)))}

\* the lines under the first run of consecutive headings holding a word of the
\* section, joined and trimmed
RunBody(H, section) ==
    LET w == Worded(H, section)
        first == CHOOSE k \in w : \A j \in w : k <= j
        run == {k \in first..Len(H) : \A j \in first..k : j \in w}
        RECURSIVE Under(_)
        Under(k) == IF k \notin run THEN <<>> ELSE H[k].under \o Under(k + 1)
    IN  Strip(Join(Under(first), "\n"))

\* the AI content matched to a section: by name, else by resemblance, else by shared
\* word; "" when nothing matches or the matched content is blank
Matched(H, section) ==
    LET like == Resembling(H, section)
    IN  IF Named(H, section) # {} THEN BodyOf(H, section)
        ELSE IF like # {}
        THEN BodyOf(H, H[CHOOSE k \in like : \A j \in like : k <= j].name)
        ELSE IF Worded(H, section) # {} THEN RunBody(H, section)
        ELSE ""

\* the hybrid report shows `content` under the heading of its i-th required section
Shows(report, i, content) ==
    Contains(report,
             "\n\n## " \o CallSections[i] \o "\n\n" \o content \o "\n\n## "
                \o (IF i < Len(CallSections) THEN CallSections[i + 1]
                    ELSE "Data Summary & Methodology") \o "\n")

\* C7: for every AI output text, framework and metrics bundle, the hybrid tier produces
\* a report that contains every section the framework requires.
C7_HybridHasEverySection ==
    ret.done =>
        /\ ret.result.ok
        /\ \A i \in 1..Len(CallSections) :
              Contains(ret.result.val, "\n## " \o CallSections[i] \o "\n")

\* C8 as stated: when the AI output has no heading for a required section (none of
\* its name, and none whose name contains or is contained in its name), that section
\* shows its generator's output, so that the content of another heading is not reused
\* for it; a required section whose heading is in the AI output shows the AI's content
\* for that heading.
C8_MissingHeadingGenerated ==
    (ret.done /\ ret.result.ok) =>
        LET H == AIHeadings(call.ai)
        IN  \A i \in 1..Len(CallSections) :
               /\ (Named(H, CallSections[i]) = {} /\ Resembling(H, CallSections[i]) = {})
                     => Shows(ret.result.val, i, Generated(i).val)
               /\ (Named(H, CallSections[i]) # {} /\ BodyOf(H, CallSections[i]) # "")
                     => Shows(ret.result.val, i, BodyOf(H, CallSections[i]))

\* C8, amended: a required section shows, trimmed, the AI content matched to it: the
\* body of the last kept heading of its name; without one, the body kept for the first
\* heading whose name contains or is contained in its own (case-insensitively); without
\* one, the lines under the first run of '## ' headings sharing a word with it.  It
\* shows its generator's output exactly when no heading matches or the matched content
\* is blank, and if that generator raises, the hybrid tier raises that error.
C8_SectionsByMatch ==
    ret.done =>
        LET H == AIHeadings(call.ai)
            Expected(i) ==
                IF Matched(H, CallSections[i]) # "" THEN Ok(Matched(H, CallSections[i]))
                ELSE Generated(i)
            raising == {i \in 1..Len(CallSections) : ~Expected(i).ok}
        IN  IF raising # {}
            THEN ret.result = Raise(Expected(CHOOSE i \in raising :
                                                 \A j \in raising : i <= j).val)
            ELSE /\ ret.result.ok
                 /\ \A i \in 1..Len(CallSections) :
                       Shows(ret.result.val, i, Expected(i).val)

\* a report built from an AI output in which one required section has no matching
\* heading, one has its exact heading, and one is matched through a shared word only
C8_Witness ==
    /\ ret.done
    /\ ret.result.ok
    /\ LET H == AIHeadings(call.ai)
       IN  /\ \E i \in 1..Len(CallSections) :
                 /\ Named(H, CallSections[i]) = {}
                 /\ Resembling(H, CallSections[i]) = {}
                 /\ Worded(H, CallSections[i]) = {}
                 /\ Shows(ret.result.val, i, Generated(i).val)
           /\ \E i \in 1..Len(CallSections) :
                 /\ Named(H, CallSections[i]) # {}
                 /\ BodyOf(H, CallSections[i]) # ""
                 /\ Shows(ret.result.val, i, BodyOf(H, CallSections[i]))
           /\ \E i \in 1..Len(CallSections) :
                 /\ Named(H, CallSections[i]) = {}
                 /\ Resembling(H, CallSections[i]) = {}
                 /\ Worded(H, CallSections[i]) # {}
                 /\ RunBody(H, CallSections[i]) # ""
                 /\ Shows(ret.result.val, i, RunBody(H, CallSections[i]))

-----------------------------------------------------------------------------
(* Specification SpecAI: one AI attempt (_generate_ai_report) on inputs of    *)
(* sizes around the thresholds of _select_model                               *)

SampleLengths == {0, 5000, 5001, 10000, 10001}
SampleRowCounts == {0, 500, 501, 1000, 1001}

InitAI ==
    /\ IdlePure
    /\ pc = "fallback"
    /\ ai_available = TRUE
    /\ framework = "general"
    /\ dataframe = NoDataFrame
    /\ \E n \in SampleRowCounts : metrics = [InitialMetrics EXCEPT !.row_count = n]
    /\ schema = SchemaOf(Scores(0, 0, 0), "General Business")
    /\ user_name = "Acme"
    /\ user_role = ""
    /\ report_focus = "full"
    /\ content_length \in SampleLengths
    /\ model = "none"
    /\ ai_report = ""
    /\ hybrid_report = ""
    /\ outcome = "none"
    /\ log = <<>>

NextAI ==
    \/ SelectModel
    \/ AICallReturns
    \/ AICallRaises
    \/ AIRetryReturns
    \/ AIRetryRaises

SpecAI == InitAI /\ [][NextAI]_vars

\* the calls of the generation collaborator made so far
AICalls == SelectSeq(log, LAMBDA e : e.op = "ai_call")

\* the AI attempt has ended: its text is with the orchestrator, or its error raised
AttemptOver == pc \notin {"start", "fallback", "ai_call", "ai_retry"}

\* C6: within one AI attempt the collaborator is called at most twice; a second call is
\* made exactly when the first raised and the model selected for it by input size was
\* not the fast model, and it uses the fast model; content longer than 10000 characters
\* or more than 1000 rows selects the fast model, and then a failing call is not
\* retried; a failure of the last call is raised to the orchestrator.
C6_OneDowngradeAtMost ==
    LET calls == AICalls
        large == content_length > 10000 \/ metrics.row_count > 1000
    IN  /\ Len(calls) <= 2
        /\ Len(calls) >= 1 => (calls[1].arg = "mixtral-8x7b-32768" <=> large)
        /\ Len(calls) = 2 =>
              /\ ~calls[1].ok
              /\ calls[1].arg # "mixtral-8x7b-32768"
              /\ calls[2].arg = "mixtral-8x7b-32768"
        /\ AttemptOver =>
              /\ Len(calls) >= 1
              /\ Len(calls) = 2 <=> (~calls[1].ok /\ calls[1].arg # "mixtral-8x7b-32768")
              /\ (large /\ ~calls[1].ok) => Len(calls) = 1
              /\ ~calls[Len(calls)].ok <=> pc = "except"

\* an attempt whose first call raised and whose call with the fast model raised too
C6_Witness ==
    /\ pc = "except"
    /\ Len(AICalls) = 2
    /\ ~AICalls[1].ok
    /\ ~AICalls[2].ok

-----------------------------------------------------------------------------
(* Specification Spec: generate_report with its tiered orchestrator *)

\* the table of RevenueCostFrame, as CSV
RevenueCostText == "Region,Revenue,Cost\nNorth,1000,700\nSouth,1200,800"

\* a revenue column whose values are all missing
EmptyRevenueText == "Revenue,Cost\n,1\n,2"

\* the same, with a header of more than 500 characters
LongHeaderText == "Revenue,Cost " \o Repeat("x", 500) \o "\n,1\n,2"

\* the table of DatedFrame, as CSV; none of its words is a domain keyword
DatedText ==
    "Order Date,Amount,Stage\n2024-03-01,300,won\n2024-01-15,200,open\npending,,open\n2024-01-15,200,open"

\* two headers that are one name once cleaned
SharedNameText == "Units,units \n1,2\n3,4"

\* prose, and prose of more than LargeContent characters
NotesText == "Quarterly notes: revenue grew"
LongNotesText == Repeat("notes ", 1667)

\* test_data of test_report_generation, at a hundredth of its amounts (the statistics
\* of the amounts themselves do not fit the integers of the checker)
SetupTestText == "product,sales,profit\nLaptop,150,30\nPhone,250,50"

TableTexts ==
    { RevenueCostText, EmptyRevenueText, LongHeaderText, DatedText, SharedNameText,
      SetupTestText, "" }

ProseTexts == { NotesText, LongNotesText, SharedNameText, "" }

Requests ==
    { [ fn |-> "generate_report", data_content |-> t, data_type |-> d,
        business_type |-> "General Business", report_focus |-> "auto",
        user_name |-> "Acme", user_role |-> r, output_format |-> f ] :
        t \in TableTexts, d \in {"csv"}, r \in {"", "Executive"},
        f \in {"markdown", "html"} }
    \cup
    { [ fn |-> "generate_report", data_content |-> t, data_type |-> d,
        business_type |-> "General Business", report_focus |-> "auto",
        user_name |-> "Acme", user_role |-> r, output_format |-> f ] :
        t \in ProseTexts, d \in {"text"}, r \in {"", "Executive"},
        f \in {"markdown", "html"} }
    \cup
    { [ fn |-> "generate_report", data_content |-> t, data_type |-> d,
        business_type |-> "General Business", report_focus |-> "auto",
        user_name |-> "Acme", user_role |-> r, output_format |-> f ] :
        t \in {RevenueCostText, NotesText}, d \in {"auto"}, r \in {""},
        f \in {"markdown"} }

Init ==
    /\ call \in Requests
    /\ ret = NotDone
    /\ pc = "start"
    /\ ai_available \in BOOLEAN
    /\ framework = "general"
    /\ dataframe = NoDataFrame
    /\ metrics = InitialMetrics
    /\ schema = SchemaOf(Scores(0, 0, 0), "General Business")
    /\ user_name = ""
    /\ user_role = ""
    /\ report_focus = "auto"
    /\ content_length = 0
    /\ model = "none"
    /\ ai_report = ""
    /\ hybrid_report = ""
    /\ outcome = "none"
    /\ log = <<>>

Next ==
    \/ Prepare
    \/ SelectModel
    \/ AICallReturns
    \/ AICallRaises
    \/ AIRetryReturns
    \/ AIRetryRaises
    \/ ValidateAI
    \/ Hybrid
    \/ ValidateHybrid
    \/ TemplateInTry
    \/ TemplateExcept
    \/ TemplateNoAI
    \/ Return
    \/ Fail

Spec == Init /\ [][Next]_vars

\* _generate_with_fallback has ended
Returned == pc \in {"return", "done"}

\* the AI attempt ended with a text, or with an error
AIReturned == AttemptOver /\ AICalls # <<>> /\ AICalls[Len(AICalls)].ok
AIFailed == AttemptOver /\ AICalls # <<>> /\ ~AICalls[Len(AICalls)].ok

\* C2: when AI is configured and the AI call returns a text, the orchestrator validates
\* the text and returns it unchanged iff it is accepted; otherwise it builds the hybrid
\* report, validates it and returns it iff accepted; otherwise it returns the template
\* report.  A rejected text is never the result of the AI or hybrid tier.
C2_ValidatorGates ==
    (Returned /\ ai_available /\ AIReturned) =>
        /\ IF _validate_report(ai_report)
           THEN outcome = [tier |-> "ai", result |-> Ok(ai_report)]
           ELSE /\ HybridNow.ok
                /\ IF _validate_report(HybridNow.val)
                   THEN outcome = [tier |-> "hybrid", result |-> HybridNow]
                   ELSE /\ outcome.tier = "template"
                        /\ outcome.result.ok
                        /\ outcome.result = TemplateNow
        /\ (outcome.tier \in {"ai", "hybrid"} /\ outcome.result.ok)
              => _validate_report(outcome.result.val)

\* C3 as stated: when the AI call fails, also after the model downgrade, the
\* orchestrator goes on to the hybrid tier.
C3_FailureGoesToHybrid ==
    (Returned /\ AIFailed) => \E i \in 1..Len(log) : log[i].op = "hybrid"

\* C3, amended: when the AI call fails, also after the model downgrade, the
\* orchestrator goes straight to the template tier: no hybrid report is built, the
\* validator is not run, and what the template tier yields is the outcome.
C3_FailureGoesToTemplate ==
    AIFailed =>
        /\ \A i \in 1..Len(log) : log[i].op \notin {"hybrid", "validate"}
        /\ hybrid_report = ""
        /\ pc \in {"except", "return", "done"}
        /\ Returned =>
              /\ log[Len(log)] = Entry("template", "except", TemplateNow.ok)
              /\ outcome = [tier |-> "template", result |-> TemplateNow]

\* both calls of the collaborator raised and the template report went back to the caller
C3_Witness ==
    /\ pc = "done"
    /\ AIFailed
    /\ Len(AICalls) = 2
    /\ outcome.tier = "template"
    /\ ~ret.error
    /\ ret.result = TemplateNow.val

\* generate_report has returned to its caller
Finished == ret.done

\* the numbered suggestions of the error report
RecommendedActions ==
    << "1. Check your data format (CSV, JSON, or structured text)",
       "2. Verify data contains numeric columns for analysis",
       "3. Ensure internet connectivity if using AI features",
       "4. Try reducing data size if it's very large",
       "5. Contact support with the error details above" >>

\* C11: for every text input, generate_report returns a string and no exception reaches
\* the caller: a request ends only by returning, and when a stage raised before a report
\* was produced the returned string is the diagnostic report, with the timestamp, the
\* error message, the first 500 characters of the input at most, and the remediation
\* suggestions.
C11_AlwaysReturnsAReport ==
    /\ pc = "raised" => ~outcome.result.ok
    /\ Finished =>
          /\ pc \in {"done", "failed"}
          /\ ret.error <=> ~outcome.result.ok
          /\ ret.error =>
                /\ ret.returned = ret.result
                /\ StartsWith(ret.returned, "# ⚠ Report Generation Error\n**Time:** "
                                               \o NowDate \o " " \o NowTime \o "\n")
                /\ Contains(ret.returned,
                            "\n**Error:** " \o ErrorMessage(outcome.result.val) \o "\n")
                /\ Contains(ret.returned,
                            "chars):**\n" \o Fence \o "\n" \o Take(call.data_content, 500)
                               \o "\n" \o Fence \o "\n")
                /\ Len(call.data_content) > 500 =>
                       ~Contains(ret.returned, Take(call.data_content, 501))
                /\ \A i \in 1..Len(RecommendedActions) :
                       Contains(ret.returned, "\n" \o RecommendedActions[i] \o "\n")

\* the template tier raised on an input of more than 500 characters, and the error
\* report went back
C11_Witness ==
    /\ pc = "done"
    /\ ret.error
    /\ outcome.tier = "template"
    /\ Len(call.data_content) > 500

\* C12: for the empty input string generate_report returns the error report, not a
\* regular report.
C12_EmptyInputIsAnError ==
    (Finished /\ call.data_content = "") => ret.error

\* the tier a returned text names: the title of the error report, the methodology line
\* of the hybrid report, the method line of the template report
TierTag(text) ==
    IF StartsWith(text, "# ⚠ Report Generation Error") THEN "error"
    ELSE IF Contains(text, "Analysis performed using hybrid AI-Template approach")
    THEN "hybrid"
    ELSE IF Contains(text, "Method: Template-based analysis with calculated metrics")
    THEN "template"
    ELSE "none"

\* C13: every result of generate_report carries a tag naming the tier that produced
\* it (ai, hybrid, template or error), so that the caller can tell the tier from the
\* returned value.
C13_ResultNamesItsTier ==
    Finished => TierTag(ret.returned) = (IF ret.error THEN "error" ELSE outcome.tier)

\* the places of the log where a tier was entered
Entered(tier) == {i \in 1..Len(log) : log[i].op = tier}

\* C28: within one request the orchestrator moves through the tiers forwards only (AI,
\* then hybrid, then template) and enters the hybrid and the template tier at most
\* once each, whatever fails, is rejected or raises.
C28_EachTierOnce ==
    /\ Cardinality(Entered("hybrid")) <= 1
    /\ Cardinality(Entered("template")) <= 1
    /\ \A i \in Entered("hybrid") : \A j \in Entered("ai_call") : j < i
    /\ \A i \in Entered("template") : \A j \in Entered("ai_call") \cup Entered("hybrid") : j < i

\* the test of test_report_generation on a report
SetupTestPasses(report) ==
    Len(report) > 100 /\ Contains(report, "BUSINESS INTELLIGENCE REPORT")

\* C25: for CSV input with a header and numeric columns, generate_report without AI
\* returns a report of more than 100 characters that contains the title text
\* "BUSINESS INTELLIGENCE REPORT", as the setup test looks for it.
C25_SetupTestFindsTitle ==
    (Finished /\ ~ai_available /\ ~ret.error /\ call.data_type = "csv"
        /\ call.output_format = "markdown" /\ Len(metrics.numeric_columns) > 0)
        => SetupTestPasses(ret.returned)

\* C4: if the AI collaborator raises on every call, generate_report on financial data
\* returns a template-tier report with all seven financial sections, and no exception
\* reaches the caller.
C4_AlwaysRaisingAI ==
    (pc = "done" /\ ai_available /\ framework = "financial" /\ AIFailed) =>
        /\ outcome.tier = "template"
        /\ ~ret.error
        /\ \A i \in 1..7 : Contains(ret.result, "\n## " \o TEMPLATES.financial.sections[i] \o "\n")

\* C5: when no AI capability is configured, the orchestrator never calls the AI
\* collaborator, never builds a hybrid report and never runs the validator: it goes
\* straight to the template tier and returns its result.
C5_NoAIStraightToTemplate ==
    ~ai_available =>
        /\ \A i \in 1..Len(log) : log[i].op = "template"
        /\ Len(log) <= 1
        /\ model = "none" /\ ai_report = "" /\ hybrid_report = ""
        /\ Returned =>
              /\ log = <<Entry("template", "no_ai", TemplateNow.ok)>>
              /\ outcome = [tier |-> "template", result |-> TemplateNow]
        /\ (pc = "done" /\ ~ret.error) => ret.result = TemplateNow.val

\* a request served without AI: one call, of the template tier, whose report went back
C5_Witness ==
    /\ ~ai_available
    /\ pc = "done"
    /\ Len(log) = 1
    /\ ~ret.error
    /\ ret.result = TemplateNow.val

-----------------------------------------------------------------------------
(* Specification SpecValidate: _validate_report applied to sample texts *)

MaxWords == 53
MaxMarkers == 2

\* subsets of the generic phrases put into a sample text, by index
PhraseChoices == { <<>>, <<1>>, <<4>>, <<2, 3>>, <<1, 5>>, <<1, 2, 3, 4, 5>> }

RECURSIVE PhraseText(_, _)
PhraseText(choice, upper) ==
    IF Len(choice) = 0 THEN ""
    ELSE (IF upper THEN Upper(generic_phrases[choice[1]]) ELSE generic_phrases[choice[1]])
            \o ". " \o PhraseText(Tail(choice), upper)

\* a text of `markers` headings markers, `words` copies of `word`, and the chosen phrases
SampleText(markers, words, word, choice, upper) ==
    Repeat("## ", markers) \o Repeat(word \o " ", words) \o PhraseText(choice, upper)

ValidatorInputs ==
    { SampleText(m, w, word, choice, upper) :
        m \in 0..MaxMarkers, w \in 0..MaxWords, word \in {"w", "words"},
        choice \in PhraseChoices, upper \in BOOLEAN }

InitValidate ==
    /\ call \in { [fn |-> "_validate_report", report |-> t] : t \in ValidatorInputs }
    /\ ret = NotDone
    /\ IdleRequest

ValidateCall ==
    /\ call.fn = "_validate_report"
    /\ ~ret.done
    /\ ret' = [done |-> TRUE, result |-> _validate_report(call.report)]
    /\ UNCHANGED <<call, reqVars, runVars>>

NextValidate == ValidateCall

SpecValidate == InitValidate /\ [][NextValidate]_vars

\* the number of section markers ('##') in a text
MarkerCount(t) == Cardinality({i \in 1..(Len(t) - 1) : SubSeq(t, i, i + 1) = "##"})

\* C9: the validator accepts every text that has at least 2 section markers, at least
\* 50 words and none of the known boilerplate phrases.
C9_AcceptsWellFormed ==
    ret.done =>
        ((/\ MarkerCount(call.report) >= 2
          /\ WordCount(call.report) >= 50
          /\ generic_count(call.report) = 0) => ret.result = TRUE)

-----------------------------------------------------------------------------
(* Specification SpecSchema: _detect_schema and _select_framework applied to *)
(* sample texts and business categories                                      *)

MaxTextWords == 3

\* words the sample texts are made of: keywords of the three domains in several
\* letter cases, a word holding two sales keywords, and a word that is no keyword
SchemaWords ==
    << "Revenue", "cost", "PROFIT", "sales-lead", "Deal", "Inventory", "quality", "widgets" >>

\* the texts of at most MaxTextWords words, each word followed by a blank
RECURSIVE TextsOf(_)
TextsOf(n) ==
    IF n = 0 THEN {""}
    ELSE TextsOf(n - 1)
            \cup { t \o SchemaWords[i] \o " " : t \in TextsOf(n - 1), i \in 1..Len(SchemaWords) }

SchemaTexts == TextsOf(MaxTextWords)

SampleCategories ==
    { "General Business", "Healthcare", "Retail", "E-commerce", "Coffee Shop",
      "Manufacturing", "Chemical Plant", "Investment Bank", "ACCOUNTING", "Retail Bank",
      "Factory Store", "Film Production Finance" }

SchemaCalls ==
    { [fn |-> "_detect_schema", content |-> t, business_type |-> "General Business"] :
        t \in SchemaTexts }
    \cup
    { [fn |-> "_select_framework", content |-> t, business_type |-> b] :
        t \in TextsOf(1), b \in SampleCategories }

InitSchema ==
    /\ call \in SchemaCalls
    /\ ret = NotDone
    /\ IdleRequest

DetectSchemaCall ==
    /\ call.fn = "_detect_schema"
    /\ ~ret.done
    /\ ret' = [done |-> TRUE, result |-> _detect_schema(call.content, call.business_type)]
    /\ UNCHANGED <<call, reqVars, runVars>>

\* the framework selected for the schema of the text and the category
SelectFrameworkCall ==
    /\ call.fn = "_select_framework"
    /\ ~ret.done
    /\ ret' = [done |-> TRUE,
               result |-> _select_framework(_detect_schema(call.content, call.business_type),
                                            call.business_type)]
    /\ UNCHANGED <<call, reqVars, runVars>>

NextSchema ==
    \/ DetectSchemaCall
    \/ SelectFrameworkCall

SpecSchema == InitSchema /\ [][NextSchema]_vars

\* the keywords of a domain
TermsOf(d) ==
    IF d = "financial" THEN financial_terms
    ELSE IF d = "sales" THEN sales_terms ELSE operational_terms

\* the keywords of domain d that occur in the case-folded text
Found(d, text) ==
    {i \in 1..Len(TermsOf(d)) : Contains(Lower(text), TermsOf(d)[i])}

\* C15: the schema of every text has a confidence in [0,1]; when no keyword of any of
\* the three domains occurs in the text, the confidence is exactly 0 and the domain is
\* general.
C15_ConfidenceInUnitInterval ==
    (ret.done /\ call.fn = "_detect_schema") =>
        LET conf == ret.result.confidence
        IN  /\ conf.den > 0
            /\ 0 <= conf.num /\ conf.num <= conf.den
            /\ (\A d \in {"financial", "sales", "operational"} : Found(d, call.content) = {})
                  => (conf.num = 0 /\ ret.result.type = "general")

\* a text of three words, none of them a keyword, classified
C15_Witness ==
    /\ ret.done
    /\ call.fn = "_detect_schema"
    /\ call.content = "widgets widgets widgets "
    /\ ret.result.type = "general"

\* the first domain, in the order financial, sales, operational, whose score is the
\* highest, or general when no score is positive
ArgMax(score) ==
    IF \A i \in 1..3 : score[Domains[i]] = 0 THEN "general"
    ELSE Domains[CHOOSE i \in 1..3 :
                    /\ \A j \in 1..3 : score[Domains[j]] <= score[Domains[i]]
                    /\ \A j \in 1..(i - 1) : score[Domains[j]] < score[Domains[i]]]

\* C16 as stated: the primary domain is the first domain of the highest score, the
\* score of a domain being the number of occurrences of its keywords in the
\* case-folded text; general only when all scores are 0.
C16_ScoreCountsOccurrences ==
    (ret.done /\ call.fn = "_detect_schema") =>
        ret.result.type =
            ArgMax([d \in {"financial", "sales", "operational"} |->
                        SumOccurrences(TermsOf(d), Lower(call.content))])

\* C16, amended: the score of a domain is the number of its keywords that occur in the
\* case-folded text, each keyword counted once however often it occurs; the primary
\* domain is the first domain, in the order financial, sales, operational, of the
\* highest score, and general exactly when all three scores are 0.
C16_ScoreCountsKeywords ==
    (ret.done /\ call.fn = "_detect_schema") =>
        LET score == [d \in {"financial", "sales", "operational"} |->
                         Cardinality(Found(d, call.content))]
        IN  /\ ret.result.indicators_found = score
            /\ ret.result.type = ArgMax(score)
            /\ ret.result.type = "general" <=> \A d \in DOMAIN score : score[d] = 0

\* a text where one financial keyword occurs twice and two sales keywords once each:
\* the domain is sales
C16_Witness ==
    /\ ret.done
    /\ call.fn = "_detect_schema"
    /\ call.content = "cost cost sales-lead "
    /\ ret.result.indicators_found = [financial |-> 1, sales |-> 2, operational |-> 0]
    /\ ret.result.type = "sales"

retail_like == <<"retail", "e-commerce", "store", "shop">>
manufacturing_like == <<"manufacturing", "factory", "production", "plant">>
finance_like == <<"bank", "finance", "investment", "accounting">>

\* C17: the selector returns the classifier's primary domain whenever that domain is
\* not general, whatever the category; when the domain is general it returns sales
\* for a retail-like category, operational for a manufacturing-like one, financial for
\* a finance-like one (a category like several of them counts as the first in this
\* order), and general when no category keyword matches.  The result is always one of
\* the four framework names.
C17_CategoryOnlyBreaksGeneral ==
    (ret.done /\ call.fn = "_select_framework") =>
        LET domain == ArgMax([d \in {"financial", "sales", "operational"} |->
                                 Cardinality(Found(d, call.content))])
            Like(words) == \E i \in 1..Len(words) : Contains(Lower(call.business_type), words[i])
        IN  /\ ret.result \in {"financial", "sales", "operational", "general"}
            /\ domain # "general" => ret.result = domain
            /\ domain = "general" =>
                  ret.result = IF Like(retail_like) THEN "sales"
                               ELSE IF Like(manufacturing_like) THEN "operational"
                               ELSE IF Like(finance_like) THEN "financial"
                               ELSE "general"

\* a financial text under a retail category: the framework is financial
C17_Witness ==
    /\ ret.done
    /\ call.fn = "_select_framework"
    /\ call.content = "Revenue "
    /\ call.business_type = "Retail"
    /\ ret.result = "financial"

-----------------------------------------------------------------------------
(* Specification SpecExtract: _extract_metrics applied to sample inputs: *)
(* delimited texts, and the tables decoded from JSON documents            *)

\* sample tables, as rows of fields; the first row is the header
PlainTable == << <<"Revenue", "Cost">>, <<"100", "60">>, <<"120", "70">> >>
GapTable == << <<"Region", "Revenue">>, <<"Jan", "100">>, <<"Feb", "">>, <<"Mar">> >>
RaggedTable == << <<"a", "b">>, <<"1", "2">>, <<"3", "4", "5">> >>
HeaderOnlyTable == << <<"Revenue", "Cost">> >>
OneColumnTable == << <<"units">>, <<"5">>, <<"7">> >>
IndexedTable == << <<"a", "b">>, <<"x", "1", "2">>, <<"y", "3", "4">> >>
SharedNameTable == << <<"Revenue", "revenue ">>, <<"1", "2">> >>
DatedTable == << <<"Date", "Sales">>, <<"2024-01-01", "5">>, <<"2024-03-01", "7">> >>
WideTable ==
    << [i \in 1..(FillerColumns + 1) |-> "m" \o ToString(i)],
       [i \in 1..(FillerColumns + 1) |-> ToString(i)] >>
\* a column whose name holds 'day' and whose values are no dates
ShiftTable == << <<"Day Shift", "Units">>, <<"early", "5">>, <<"late", "7">> >>

SampleTables ==
    { <<>>, PlainTable, GapTable, RaggedTable, HeaderOnlyTable, OneColumnTable,
      IndexedTable, SharedNameTable, DatedTable, WideTable, ShiftTable }

\* the text of a table whose fields are delimited by sep
CsvText(table, sep) == Join([r \in 1..Len(table) |-> Join(table[r], sep)], "\n")

\* a text every parse of which raises: under each separator the third line has more
\* fields than the line before it
BrokenText == "a\nb\n1,2\t3;4|5"

ExtractTexts ==
    { CsvText(t, separators[i]) : t \in SampleTables, i \in 1..Len(separators) }
    \cup { BrokenText, "\n\n", "Quarterly revenue grew, costs fell; margins improved." }

\* the table pandas builds from a JSON array of objects one field of which is an array
ListFrame == Frame(<<"id", "tags">>, << <<Num(1), Num(2)>>, <<Obj, Obj>> >>)

ExtractCalls ==
    { [fn |-> "_extract_metrics", content |-> t, data_type |-> ty, decoded |-> NoDataFrame] :
        t \in ExtractTexts, ty \in {"csv", "text"} }
    \cup
    { [fn |-> "_extract_metrics", content |-> "", data_type |-> "json", decoded |-> f] :
        f \in SampleFrames \cup {ListFrame} }

InitExtract ==
    /\ call \in ExtractCalls
    /\ ret = NotDone
    /\ IdleRequest

\* a delimited or a plain text
ExtractTextCall ==
    /\ call.fn = "_extract_metrics"
    /\ call.data_type \in {"csv", "text"}
    /\ ~ret.done
    /\ ret' = [done |-> TRUE, result |-> _extract_metrics(call.content, call.data_type)]
    /\ UNCHANGED <<call, reqVars, runVars>>

\* a JSON document, given by the table decoded from it
ExtractJsonCall ==
    /\ call.fn = "_extract_metrics"
    /\ call.data_type = "json"
    /\ ~ret.done
    /\ ret' = [done |-> TRUE,
               result |-> BundleOf([df |-> call.decoded, separator |-> "",
                                    has_header |-> "unset"], "json")]
    /\ UNCHANGED <<call, reqVars, runVars>>

NextExtract ==
    \/ ExtractTextCall
    \/ ExtractJsonCall

SpecExtract == InitExtract /\ [][NextExtract]_vars

\* the parse of the call's text under the i-th separator
ParseUnder(i) == read_csv(call.content, separators[i], TRUE)

\* C18: the delimiters are tried in the order comma, tab, semicolon, pipe, and the one
\* recorded is the first whose parse yields a table of more than one column: a parse
\* that yields a single column does not win over a later delimiter that splits the
\* input.  Only when no delimiter yields a table is the input parsed without a header.
C18_FirstSplittingDelimiterWins ==
    (ret.done /\ call.data_type = "csv") =>
        LET tables == {i \in 1..4 : ParseUnder(i).ok}
            splitting == {i \in tables : Len(ParseUnder(i).val.columns) > 1}
        IN  /\ splitting # {} =>
                  ret.result.metrics.separator =
                      separators[CHOOSE i \in splitting : \A j \in splitting : i <= j]
            /\ ret.result.metrics.has_header = "False" => tables = {}

\* C19: the keys of the per-column statistics are among the first 10 entries of
\* numeric_columns; the number of numeric columns is at most column_count; row_count
\* is at least 0.
C19_BundleInvariants ==
    ret.done =>
        LET m == ret.result.metrics
            keys == {m.calculated[i].col : i \in 1..Len(m.calculated)}
            firstTen == {m.numeric_columns[i] :
                            i \in {k \in 1..Len(m.numeric_columns) : k <= 10}}
        IN  /\ keys \subseteq firstTen
            /\ Len(m.numeric_columns) <= m.column_count
            /\ m.row_count >= 0

\* a table of more than 10 numeric columns: statistics for 10 of them
C19_Witness ==
    /\ ret.done
    /\ call.data_type = "csv"
    /\ Len(ret.result.metrics.numeric_columns) > 10
    /\ Len(ret.result.metrics.calculated) = 10
    /\ ret.result.metrics.row_count = 1

\* the table the call's text parses to
ParsedTable == ParseCsv(call.content).df

\* C27: the data-quality figures describe the parsed input table: missing_cells is the
\* number of cells missing in the input, so a table without a missing cell has
\* missing_percentage 0; a column with a date keyword in its name whose values do not
\* parse as dates adds no missing cell and is not kept as a date column.
C27_QualityDescribesInput ==
    (ret.done /\ call.data_type = "csv" /\ ret.result.metrics.data_quality.present) =>
        LET quality == ret.result.metrics.data_quality
            missing == Cardinality({<<i, r>> \in (1..Len(ParsedTable.columns))
                                                  \X (1..RowCount(ParsedTable)) :
                                       ParsedTable.data[i][r].k = "na"})
        IN  /\ quality.missing_cells = missing
            /\ missing = 0 => quality.missing_percentage = 0
            /\ \A k \in 1..Len(ret.result.metrics.date_columns) :
                  \E i \in 1..Len(ret.result.df.columns) :
                      /\ ret.result.df.columns[i] = ret.result.metrics.date_columns[k]
                      /\ \E r \in 1..RowCount(ret.result.df) :
                             ret.result.df.data[i][r].k = "date"

\* C20: the extractor returns a bundle for every input, and a failure while parsing
\* (a parse of the text that raises) is recorded in the bundle's parse_error field.
C20_FailuresRecorded ==
    ret.done =>
        /\ ret.result.metrics.row_count >= 0
        /\ (call.data_type = "csv" /\ \E i \in 1..4 : ~ParseUnder(i).ok)
              => ret.result.metrics.parse_error # ""

-----------------------------------------------------------------------------
(* Specification SpecFramework: the financial and the sales analyzer applied *)
(* to the tables the extractor hands them                                    *)

FirstNames == {"Revenue", "Deal Id", "Gross Sales"}
SecondNames == {"Cost", "Deal Amount", "revenue "}
FirstCells == { <<Num(100), Num(120)>>, <<NA, Num(5)>>, <<Num(0), Num(0)>> }
SecondCells == { <<Num(70), Num(80)>>, <<Num(3), NA>>, <<Num(0), Num(9)>> }

\* the table of the scenario, at a hundredth of its amounts (the statistics of the
\* amounts themselves do not fit the integers of the checker)
MonthlyFrame ==
    Frame(<<"Month", "Revenue", "Cost">>,
          << <<Str("Jan"), Str("Feb")>>, <<Num(1000), Num(1200)>>, <<Num(700), Num(800)>> >>)

\* the table of the scenario
ScenarioFrame ==
    Frame(<<"Month", "Revenue", "Cost">>,
          << <<Str("Jan"), Str("Feb")>>, <<Num(100000), Num(120000)>>,
             <<Num(70000), Num(80000)>> >>)

\* an id column before the amount column
PipelineFrame ==
    Frame(<<"Deal Id", "Stage", "Amount">>,
          << <<Num(1), Num(2), Num(3)>>, <<Str("won"), Str("open"), Str("won")>>,
             <<Num(500), Num(700), NA>> >>)

\* two revenue columns that are one name once cleaned, and a cost column
TwinRevenueFrame ==
    Frame(<<"Revenue", "revenue ", "Cost">>,
          << <<Num(100), Num(120)>>, <<Num(1), Num(2)>>, <<Num(70), Num(80)>> >>)

FrameworkFrames ==
    { Frame(<<a, b>>, <<x, y>>) :
        a \in FirstNames, b \in SecondNames, x \in FirstCells, y \in SecondCells }
    \cup { MonthlyFrame, PipelineFrame, TwinRevenueFrame, RevenueCostFrame, LossFrame, DatedFrame,
           TextFrame, NoDataFrame }

FrameworkCalls ==
    { [fn |-> "framework", framework |-> fw, df |-> f] :
        fw \in {"financial", "sales"}, f \in FrameworkFrames }

InitFramework ==
    /\ call \in FrameworkCalls
    /\ ret = NotDone
    /\ IdleRequest

\* steps 3 and 4 of generate_report for a parsed table: the statistics, and the
\* analysis of the table the extractor returns
FrameworkCall ==
    /\ call.fn = "framework"
    /\ ~ret.done
    /\ \E extract \in {ExtractFromFrame(call.df)} :
           ret' = [ done |-> TRUE, df |-> extract.df, metrics |-> extract.metrics,
                    result |-> FrameworkAnalysis(call.framework, extract.df) ]
    /\ UNCHANGED <<call, reqVars, runVars>>

NextFramework == FrameworkCall

SpecFramework == InitFramework /\ [][NextFramework]_vars

\* the sum of the numbers among the cells
NumberTotal(cells) ==
    LET upTo[i \in 0..Len(cells)] ==
            IF i = 0 THEN 0
            ELSE upTo[i - 1] + (IF cells[i].k = "num" THEN cells[i].n ELSE 0)
    IN  upTo[Len(cells)]

\* the columns of a table that are numeric and whose name holds one of the words, by
\* position
NumericLike(df, words) ==
    {i \in 1..Len(df.columns) :
        /\ Len(df.data[i]) > 0
        /\ \A r \in 1..Len(df.data[i]) : df.data[i][r].k \in {"num", "na"}
        /\ \E w \in words : Contains(Lower(df.columns[i]), w)}

Lowest(S) == CHOOSE i \in S : \A j \in S : i <= j

\* the gross margin of the table df, as the claim defines it
MarginHolds(df, margin) ==
    LET revenue_like == NumericLike(df, {"revenue", "sales", "income", "gross"})
        cost_like == NumericLike(df, {"cost", "expense", "cogs", "operating"})
        revenue == NumberTotal(df.data[Lowest(revenue_like)])
        cost == NumberTotal(df.data[Lowest(cost_like)])
    IN  (revenue_like # {} /\ cost_like # {}) =>
            /\ margin.present
            /\ margin.value = 100 * (revenue - cost)
            /\ IF revenue = 0 THEN margin.percentage = 0
               ELSE 2 * Abs(margin.percentage * revenue - 10000 * (revenue - cost))
                        <= Abs(revenue)

\* C21: for a table with a revenue-like and a cost-like numeric column the financial
\* analyzer reports gross_margin.value = sum of the first revenue-like column minus sum
\* of the first cost-like column, and gross_margin.percentage = value / revenue sum *
\* 100 (0 when the revenue sum is 0); the statistic sum of a column is the sum of its
\* values that are not missing; the rows (100000, 70000), (120000, 80000) give the
\* revenue sum 220000 and the gross margin 70000.
C21_GrossMarginOfFirstPair ==
    /\ (ret.done /\ call.framework = "financial") =>
          /\ ret.result.ok
          /\ MarginHolds(ret.df, ret.result.val.gross_margin)
          /\ \A k \in 1..Len(ret.metrics.calculated) :
                \E i \in 1..Len(ret.df.columns) :
                    /\ ret.df.columns[i] = ret.metrics.calculated[k].col
                    /\ ret.metrics.calculated[k].sum = 100 * NumberTotal(call.df.data[i])
    /\ \E scenario \in {ConvertDates(CleanColumns(ScenarioFrame), 1).df} :
          /\ 100 * ColumnTotal(scenario, "revenue") = 22000000
          /\ _financial_framework(scenario).gross_margin.value = 7000000

\* C23: the sales analyzer computes average_amount and total_amount from the first
\* numeric column whose name holds amount, value or size; a numeric column that is not
\* amount-like is never used, and without an amount-like numeric column the two are
\* not reported.
C23_AmountLikeColumnOnly ==
    (ret.done /\ call.framework = "sales" /\ ret.result.ok) =>
        LET amount_like == NumericLike(ret.df, {"amount", "value", "size"})
            analysis == ret.result.val
        IN  IF amount_like = {}
            THEN ~analysis.average_amount.present /\ ~analysis.total_amount.present
            ELSE /\ analysis.amount_column = ret.df.columns[Lowest(amount_like)]
                 /\ analysis.total_amount.present
                 /\ analysis.total_amount.value
                       = 100 * NumberTotal(ret.df.data[Lowest(amount_like)])

-----------------------------------------------------------------------------
(* Specification SpecDetect: _detect_data_type applied to texts of one and *)
(* of two lines                                                            *)

DetectLines ==
    { "a,b", "a\tb", "name", "", "{\"a\": 1}", "[1, 2]", "[1, 2", "{\"a\":", "1}" }

DetectTexts == DetectLines \cup { a \o "\n" \o b : a \in DetectLines, b \in DetectLines }

DetectCalls == { [fn |-> "_detect_data_type", content |-> t] : t \in DetectTexts }

InitDetect ==
    /\ call \in DetectCalls
    /\ ret = NotDone
    /\ IdleRequest

DetectCall ==
    /\ call.fn = "_detect_data_type"
    /\ ~ret.done
    /\ ret' = [done |-> TRUE, result |-> _detect_data_type(call.content)]
    /\ UNCHANGED <<call, reqVars, runVars>>

NextDetect == DetectCall

SpecDetect == InitDetect /\ [][NextDetect]_vars

\* the first line of a text, the blank space around the text set aside
FirstLine(text) == SplitLines(Strip(text))[1]

\* a text that is bracket-delimited and parses
Structured(text) ==
    /\ \/ (StartsWith(Strip(text), "{") /\ EndsWith(Strip(text), "}"))
       \/ (StartsWith(Strip(text), "[") /\ EndsWith(Strip(text), "]"))
    /\ json_loads_ok(text)

\* C22: a text whose first line holds a comma or a tab (at least 2 fields) is tabular
\* ('csv'), whatever the number of its lines; any other text that parses as a
\* bracket-delimited structure is structured ('json'); every remaining text is
\* unstructured ('text').  The result is always one of the three.
C22_FirstLineDecides ==
    ret.done =>
        /\ ret.result \in {"csv", "json", "text"}
        /\ ret.result =
              (IF Contains(FirstLine(call.content), ",")
                     \/ Contains(FirstLine(call.content), "\t")
               THEN "csv"
               ELSE IF Structured(call.content) THEN "json"
               ELSE "text")

(***************************************************************************)
(* _convert_to_html on its own: the specification SpecHtml applies it to   *)
(* every report of up to MaxHtmlLines lines drawn from HtmlLines           *)
(***************************************************************************)
MaxHtmlLines == 3

HtmlLines == { "# Title", "- first", "* second", "1. third", "2. fourth", "plain text", "" }

RECURSIVE LineSeqs(_)
LineSeqs(n) ==
    IF n = 1 THEN { <<l>> : l \in HtmlLines }
    ELSE LineSeqs(n - 1) \cup { Append(ls, l) : ls \in LineSeqs(n - 1), l \in HtmlLines }

HtmlCalls ==
    { [fn |-> "_convert_to_html", markdown_report |-> Join(ls, "\n")] :
          ls \in LineSeqs(MaxHtmlLines) }

InitHtml ==
    /\ call \in HtmlCalls
    /\ ret = NotDone
    /\ IdleRequest

ConvertCall ==
    /\ call.fn = "_convert_to_html"
    /\ ~ret.done
    /\ ret' = [done |-> TRUE, result |-> _convert_to_html(call.markdown_report)]
    /\ UNCHANGED <<call, reqVars, runVars>>

NextHtml == ConvertCall

SpecHtml == InitHtml /\ [][NextHtml]_vars

\* the list tag that starts at place i of a text: "ul", "/ul", "ol", "/ol", "li" or ""
ListTagAt(s, i) ==
    LET at(tag) == i + Len(tag) - 1 <= Len(s) /\ SubSeq(s, i, i + Len(tag) - 1) = tag
    IN  IF at("<ul>") THEN "ul"
        ELSE IF at("</ul>") THEN "/ul"
        ELSE IF at("<ol>") THEN "ol"
        ELSE IF at("</ol>") THEN "/ol"
        ELSE IF at("<li>") THEN "li"
        ELSE ""

\* the list tags of places lo..hi of a text, in order
RECURSIVE ListTags(_, _, _)
ListTags(s, lo, hi) ==
    IF lo > hi THEN << >>
    ELSE IF lo = hi THEN (IF ListTagAt(s, lo) = "" THEN << >> ELSE <<ListTagAt(s, lo)>>)
    ELSE LET mid == (lo + hi) \div 2
         IN  ListTags(s, lo, mid) \o ListTags(s, mid + 1, hi)

\* the kinds of list the list lines of a report ask for, in order
ListKinds(lines) ==
    LET kind(line) == IF IsBulletLine(line) THEN <<"ul">>
                      ELSE IF IsNumberLine(line) THEN <<"ol">>
                      ELSE << >>
        RECURSIVE from(_)
        from(i) == IF i > Len(lines) THEN << >> ELSE kind(lines[i]) \o from(i + 1)
    IN  from(1)

\* the tags from place i on are well formed, open being the lists open before place i
\* (innermost last) and kinds the kinds the items still to come ask for
RECURSIVE WellNested(_, _, _, _)
WellNested(tags, i, open, kinds) ==
    IF i > Len(tags) THEN open = << >> /\ kinds = << >>
    ELSE LET tag == tags[i]
             top == IF open = << >> THEN "" ELSE open[Len(open)]
         IN  IF tag \in {"ul", "ol"} THEN WellNested(tags, i + 1, Append(open, tag), kinds)
             ELSE IF tag = "li"
             THEN kinds # << >> /\ top = Head(kinds)
                     /\ WellNested(tags, i + 1, open, Tail(kinds))
             ELSE top # "" /\ tag = "/" \o top
                     /\ WellNested(tags, i + 1, SubSeq(open, 1, Len(open) - 1), kinds)

\* a line of no recognised kind that is not blank
IsOtherLine(line) ==
    ~IsHeaderLine(line) /\ ~IsBulletLine(line) /\ ~IsNumberLine(line) /\ Strip(line) # ""

\* C29: the HTML of every report has balanced, matching list tags: a list opened with
\* <ul> is closed with </ul> and one opened with <ol> with </ol>, no closing tag comes
\* without its opening tag, every <li> lies in an open list of the kind of its line,
\* no list is left open at the end; a line of no recognised kind becomes a paragraph.
C29_ListTagsBalanced ==
    (ret.done /\ call.markdown_report # "") =>
        /\ WellNested(ListTags(ret.result, 1, Len(ret.result)), 1, << >>,
                      ListKinds(SplitLines(call.markdown_report)))
        /\ \A line \in {SplitLines(call.markdown_report)[i] :
                              i \in 1..Len(SplitLines(call.markdown_report))} :
              IsOtherLine(line) => Contains(ret.result, "<p>" \o Strip(line) \o "</p>")

(***************************************************************************)
(* Two generate_report calls on one ReportGenerator: the specification     *)
(* SpecShared interleaves the steps of two requests.  The instance holds   *)
(* what __init__ set (ai_available); the local variables of a request live *)
(* in the frame of its call, and each request variable of the module holds *)
(* here one value per frame                                                *)
(***************************************************************************)
Callers == {1, 2}

\* the frame that holds the local variables of request r: one per call
FrameShared(r) == 1

FrameOf(r) == r

\* what _generate_with_fallback hands back, reply being what the collaborator does for
\* this request (a text, or Raise when both of its calls raise), hybrid and template
\* what the hybrid tier and the template tier give for the request
FallbackOutcome(ai, reply, hybrid, template) ==
    IF ~ai \/ ~reply.ok THEN template
    ELSE IF _validate_report(reply.val) THEN reply
    ELSE IF ~hybrid.ok THEN template
    ELSE IF _validate_report(hybrid.val) THEN hybrid
    ELSE template

\* the template tier and the hybrid tier for the request args
TemplateFor(args, m, fw, sch, focus, df) ==
    _generate_template_report(m, fw, sch, args.user_name, focus, df, args.user_role)

HybridFor(args, m, fw, sch, focus, df) ==
    _generate_hybrid_report(args.reply.val, m, fw, sch, args.user_name, focus, df,
                            args.user_role)

\* the except clause of generate_report for the request args and the error e
ErrorReportOf(args, e) ==
    _generate_error_report(ErrorMessage(e), ErrorSample(args.data_content), ErrorTrace(e))

\* what generate_report returns for the report or the error its step 6 ended with
ReturnedFor(args, result) ==
    IF ~result.ok THEN ErrorReportOf(args, result.val)
    ELSE IF args.output_format = "html" THEN _convert_to_html(result.val)
    ELSE result.val

SharedRequest(text, type, format, reply) ==
    [ fn |-> "generate_report", data_content |-> text, data_type |-> type,
      business_type |-> "General Business", report_focus |-> "auto",
      user_name |-> "Acme", user_role |-> "", output_format |-> format, reply |-> reply ]

SharedRequests ==
    { SharedRequest(RevenueCostText, "csv", "markdown", Ok(AIFull)),
      SharedRequest(SetupTestText, "auto", "html", Ok(AIGeneric)),
      SharedRequest(NotesText, "text", "markdown", Raise("APIError")),
      SharedRequest(EmptyRevenueText, "csv", "markdown", Ok(AIShort)),
      SharedRequest(SharedNameText, "csv", "html", Ok(AIFull)) }

InitShared ==
    /\ call \in [Callers -> SharedRequests]
    /\ ret = [r \in Callers |-> NotDone]
    /\ pc = [r \in Callers |-> "start"]
    /\ ai_available \in BOOLEAN
    /\ framework = [k \in Callers |-> "general"]
    /\ dataframe = [k \in Callers |-> NoDataFrame]
    /\ metrics = [k \in Callers |-> InitialMetrics]
    /\ schema = [k \in Callers |-> SchemaOf(Scores(0, 0, 0), "General Business")]
    /\ report_focus = [k \in Callers |-> "auto"]
    /\ outcome = [k \in Callers |-> "none"]
    /\ user_name = ""
    /\ user_role = ""
    /\ content_length = 0
    /\ model = "none"
    /\ ai_report = ""
    /\ hybrid_report = ""
    /\ log = <<>>

sharedRest == <<call, ai_available, user_name, user_role, content_length, model,
                ai_report, hybrid_report, log>>

\* step 2: schema = self._detect_schema(data_content, business_type)
SchemaStep(r) ==
    /\ pc[r] = "start"
    /\ schema' = [schema EXCEPT ![FrameOf(r)] =
                      _detect_schema(call[r].data_content, call[r].business_type)]
    /\ pc' = [pc EXCEPT ![r] = "extract"]
    /\ UNCHANGED <<sharedRest, ret, framework, dataframe, metrics, report_focus, outcome>>

\* steps 1 and 3: the data type, then df, metrics = self._extract_metrics(...)
ExtractStep(r) ==
    /\ pc[r] = "extract"
    /\ \E data_type \in {IF call[r].data_type = "auto"
                          THEN _detect_data_type(call[r].data_content)
                          ELSE call[r].data_type} :
       \E extract \in {_extract_metrics(call[r].data_content, data_type)} :
           /\ dataframe' = [dataframe EXCEPT ![FrameOf(r)] = extract.df]
           /\ metrics' = [metrics EXCEPT ![FrameOf(r)] = extract.metrics]
    /\ pc' = [pc EXCEPT ![r] = "framework"]
    /\ UNCHANGED <<sharedRest, ret, framework, schema, report_focus, outcome>>

\* steps 4 and 5: the framework, its analysis, the focus; what the analysis raises
\* goes to the except clause
FrameworkStep(r) ==
    /\ pc[r] = "framework"
    /\ \E fw \in {_select_framework(schema[FrameOf(r)], call[r].business_type)} :
       \E analysis \in {FrameworkAnalysis(fw, dataframe[FrameOf(r)])} :
           /\ framework' = [framework EXCEPT ![FrameOf(r)] = fw]
           /\ IF analysis.ok
              THEN /\ report_focus' = [report_focus EXCEPT ![FrameOf(r)] =
                                          IF call[r].report_focus = "auto"
                                          THEN TemplateOf(fw).default_focus
                                          ELSE call[r].report_focus]
                   /\ outcome' = outcome
                   /\ pc' = [pc EXCEPT ![r] = "generate"]
              ELSE /\ report_focus' = report_focus
                   /\ outcome' = [outcome EXCEPT ![FrameOf(r)] = analysis]
                   /\ pc' = [pc EXCEPT ![r] = "raised"]
    /\ UNCHANGED <<sharedRest, ret, dataframe, metrics, schema>>

\* step 6: report = self._generate_with_fallback(...)
GenerateStep(r) ==
    /\ pc[r] = "generate"
    /\ \E k \in {FrameOf(r)} :
       \E template \in {TemplateFor(call[r], metrics[k], framework[k], schema[k],
                                    report_focus[k], dataframe[k])} :
       \E hybrid \in {IF ai_available /\ call[r].reply.ok
                       THEN HybridFor(call[r], metrics[k], framework[k], schema[k],
                                      report_focus[k], dataframe[k])
                       ELSE template} :
           outcome' = [outcome EXCEPT ![k] =
                          FallbackOutcome(ai_available, call[r].reply, hybrid, template)]
    /\ pc' = [pc EXCEPT ![r] = "format"]
    /\ UNCHANGED <<sharedRest, ret, framework, dataframe, metrics, schema, report_focus>>

\* step 7 and the return, or the except clause for what step 6 raised
FormatStep(r) ==
    /\ pc[r] = "format"
    /\ ret' = [ret EXCEPT ![r] =
                  [done |-> TRUE, result |-> ReturnedFor(call[r], outcome[FrameOf(r)])]]
    /\ pc' = [pc EXCEPT ![r] = "done"]
    /\ UNCHANGED <<sharedRest, framework, dataframe, metrics, schema, report_focus, outcome>>

\* the except clause for what the framework analysis raised
FailStep(r) ==
    /\ pc[r] = "raised"
    /\ ret' = [ret EXCEPT ![r] =
                  [done |-> TRUE, result |-> ErrorReportOf(call[r], outcome[FrameOf(r)].val)]]
    /\ pc' = [pc EXCEPT ![r] = "failed"]
    /\ UNCHANGED <<sharedRest, framework, dataframe, metrics, schema, report_focus, outcome>>

NextShared ==
    \E r \in Callers :
        \/ SchemaStep(r)
        \/ ExtractStep(r)
        \/ FrameworkStep(r)
        \/ GenerateStep(r)
        \/ FormatStep(r)
        \/ FailStep(r)

SpecShared == InitShared /\ [][NextShared]_vars

\* generate_report(args) run alone on an instance returns result
RunsAloneTo(args, ai, result) ==
    \E sch \in {_detect_schema(args.data_content, args.business_type)} :
    \E data_type \in {IF args.data_type = "auto" THEN _detect_data_type(args.data_content)
                       ELSE args.data_type} :
    \E extract \in {_extract_metrics(args.data_content, data_type)} :
    \E fw \in {_select_framework(sch, args.business_type)} :
    \E analysis \in {FrameworkAnalysis(fw, extract.df)} :
        IF ~analysis.ok THEN result = ErrorReportOf(args, analysis.val)
        ELSE \E focus \in {IF args.report_focus = "auto" THEN TemplateOf(fw).default_focus
                            ELSE args.report_focus} :
             \E template \in {TemplateFor(args, extract.metrics, fw, sch, focus,
                                          extract.df)} :
             \E hybrid \in {IF ai /\ args.reply.ok
                             THEN HybridFor(args, extract.metrics, fw, sch, focus, extract.df)
                             ELSE template} :
             \E report \in {FallbackOutcome(ai, args.reply, hybrid, template)} :
                 result = ReturnedFor(args, report)

\* C24: two generate_report calls that run concurrently on one instance are
\* independent: under every interleaving of their steps each call returns what it
\* returns when it runs alone.
C24_RequestsIndependent ==
    \A r \in Callers : ret[r].done => RunsAloneTo(call[r], ai_available, ret[r].result)

\* both requests have returned, each its own report
C24_Witness ==
    /\ \A r \in Callers : ret[r].done
    /\ call[1] # call[2]
    /\ ret[1].result # ret[2].result
    /\ pc = <<"done", "failed">>

(***************************************************************************)
(* src/auth.py: the specification SpecAuth applies create_user and         *)
(* delete_user, one call after the other, to the users table of users.db.  *)
(* The variable dataframe holds the table: its rows, in the order they     *)
(* were inserted, and seq, the last id AUTOINCREMENT has given out         *)
(***************************************************************************)
MaxIds == 3
MinPassword == 6

Emails == { "", "test@example.com", "ann@example.com" }
Passwords == { "", "12345", "123456", "anotherpassword" }
Roles == { "user", "admin" }
Salts == { "s1", "s2" }

\* generate_password_hash(password): the hash depends on a salt drawn at the call
generate_password_hash(password, salt) == [method |-> "scrypt", salt |-> salt, of |-> password]

\* the rows of the users table WHERE email = ?
RowsOf(rows, email) == { i \in 1..Len(rows) : rows[i].email = email }

\* SELECT id FROM users WHERE email = ? and existing_user = c.fetchone()
ExistingUserNone(users, email) == FALSE

ExistingUser(users, email) == RowsOf(users.rows, email) # { }

\* INSERT INTO users (email, password, role, created_at): email is UNIQUE NOT NULL
InsertUser(users, email, hashed_password, role) ==
    IF \E i \in 1..Len(users.rows) : users.rows[i].email = email
    THEN Raise("UNIQUE constraint failed: users.email")
    ELSE Ok([ rows |-> Append(users.rows, [ id |-> users.seq + 1, email |-> email,
                                            password |-> hashed_password, role |-> role ]),
              seq |-> users.seq + 1 ])

Refused(users, error) == [result |-> [success |-> FALSE, error |-> error], users |-> users]

\* create_user: the dict it returns and the table it leaves
create_user(users, email, password, role, salt) ==
    IF email = "" \/ password = "" THEN Refused(users, "Email and password are required")
    ELSE IF Len(password) < MinPassword
    THEN Refused(users, "Password must be at least 6 characters")
    ELSE IF ExistingUser(users, email)
    THEN Refused(users, "User with this email already exists")
    ELSE LET inserted == InsertUser(users, email, generate_password_hash(password, salt), role)
         IN  IF ~inserted.ok THEN Refused(users, "Database error: " \o inserted.val)
             ELSE [ result |-> [ success |-> TRUE,
                                 user |-> [ id |-> inserted.val.seq, email |-> email,
                                            role |-> role ] ],
                    users |-> inserted.val ]

\* delete_user: DELETE FROM users WHERE email = ?, and c.rowcount > 0
delete_user(users, email) ==
    [ result |-> RowsOf(users.rows, email) # { },
      users |-> [ users EXCEPT !.rows = SelectSeq(users.rows, LAMBDA row : row.email # email) ] ]

InitAuth ==
    /\ call = NoCall
    /\ ret = NotDone
    /\ pc = "idle"
    /\ ai_available = FALSE
    /\ framework = "general"
    /\ dataframe = [rows |-> << >>, seq |-> 0]
    /\ metrics = "none"
    /\ schema = "none"
    /\ user_name = ""
    /\ user_role = ""
    /\ report_focus = "full"
    /\ content_length = 0
    /\ model = "none"
    /\ ai_report = ""
    /\ hybrid_report = ""
    /\ outcome = "none"
    /\ log = <<>>

authRest == <<pc, ai_available, framework, metrics, schema, user_name, user_role,
              report_focus, content_length, model, ai_report, hybrid_report, outcome, log>>

CreateUser ==
    /\ dataframe.seq < MaxIds
    /\ \E email \in Emails, password \in Passwords, role \in Roles, salt \in Salts :
       \E created \in {create_user(dataframe, email, password, role, salt)} :
           /\ call' = [fn |-> "create_user", email |-> email, password |-> password,
                       role |-> role]
           /\ ret' = [done |-> TRUE, value |-> created.result]
           /\ dataframe' = created.users
    /\ UNCHANGED authRest

DeleteUser ==
    /\ \E email \in Emails :
       \E deleted \in {delete_user(dataframe, email)} :
           /\ call' = [fn |-> "delete_user", email |-> email]
           /\ ret' = [done |-> TRUE, value |-> deleted.result]
           /\ dataframe' = deleted.users
    /\ UNCHANGED authRest

NextAuth == CreateUser \/ DeleteUser

SpecAuth == InitAuth /\ [][NextAuth]_vars

\* the table holds at most one user per email
OneUserPerEmail ==
    \A i, j \in 1..Len(dataframe.rows) :
        dataframe.rows[i].email = dataframe.rows[j].email => i = j

\* the step is a create_user call that was refused and left the table as it was
RefusedStep == ~ret'.value.success /\ dataframe' = dataframe

\* the step is a create_user call for an email the table holds
DuplicateStep ==
    call'.fn = "create_user" /\ RowsOf(dataframe.rows, call'.email) # { }

\* the step is a create_user call with an empty email, an empty password or a password
\* of fewer than MinPassword characters
InvalidStep ==
    /\ call'.fn = "create_user"
    /\ (call'.email = "" \/ call'.password = "" \/ Len(call'.password) < MinPassword)

\* C26 as stated: after any sequence of create_user and delete_user calls the table
\* holds at most one user per email; create_user with an email the table holds is
\* refused with an 'already exists' error and leaves the stored user unchanged;
\* create_user with an empty email, an empty password or a password of fewer than 6
\* characters is refused and leaves the table unchanged.
C26_OneUserPerEmail ==
    /\ []OneUserPerEmail
    /\ [][ /\ DuplicateStep =>
                (RefusedStep /\ Contains(ret'.value.error, "already exists"))
           /\ InvalidStep => RefusedStep ]_vars

\* C26, amended: the 'already exists' error is the answer to a duplicate email when
\* the email and the password pass the checks made before the table is read; a
\* duplicate email with an empty or short password is refused for the password.
C26_OneUserPerEmailValidFirst ==
    /\ []OneUserPerEmail
    /\ [][ /\ (DuplicateStep /\ ~InvalidStep) =>
                (RefusedStep /\ Contains(ret'.value.error, "already exists"))
           /\ DuplicateStep => RefusedStep
           /\ InvalidStep => RefusedStep ]_vars

\* a second create_user for a stored email was refused; the first password is kept
C26_Witness ==
    /\ call.fn = "create_user"
    /\ ~ret.value.success
    /\ Contains(ret.value.error, "already exists")
    /\ \E i \in 1..Len(dataframe.rows) :
          /\ dataframe.rows[i].email = call.email
          /\ dataframe.rows[i].password.of # call.password
          /\ dataframe.rows[i].role # call.role

(***************************************************************************)
(* src/telegram_bot9.py: the specification SpecBot interleaves, for one    *)
(* chat, the message handlers, the format button handler and the threads   *)
(* that generate_report_async runs in.  The variables hold here:           *)
(*   call     users[chat_id], the session dict the handlers write and the  *)
(*            threads read                                                 *)
(*   pc       the position of each generation thread                       *)
(*   ret      the local variables of each thread, with what its button     *)
(*            press chose (pressed) and what it sent to the chat           *)
(*   outcome  the files Business_Report_<chat_id>.<ext> on disk, by format *)
(*   log      the documents and error messages sent to the chat            *)
(***************************************************************************)
MaxThreads == 2

Generations == 1..MaxThreads
BotTexts == { "sales were flat in May" }
BotFiles == { "Region,Sales\nNorth,10" }
BotFormats == { "txt", "pdf" }

NoFile == [exists |-> FALSE]
NoLocals == [started |-> FALSE]

InitBot ==
    /\ call = [has_content |-> FALSE, content |-> "", data_type |-> "", output_format |-> "none"]
    /\ pc = [t \in Generations |-> "idle"]
    /\ ret = [t \in Generations |-> NoLocals]
    /\ outcome = [f \in BotFormats |-> NoFile]
    /\ log = <<>>
    /\ ai_available = FALSE
    /\ framework = "general"
    /\ dataframe = NoDataFrame
    /\ metrics = "none"
    /\ schema = "none"
    /\ user_name = ""
    /\ user_role = ""
    /\ report_focus = "full"
    /\ content_length = 0
    /\ model = "none"
    /\ ai_report = ""
    /\ hybrid_report = ""

botRest == <<ai_available, framework, dataframe, metrics, schema, user_name, user_role,
             report_focus, content_length, model, ai_report, hybrid_report>>

\* receive_text: the text of the message becomes the content of the session
receive_text ==
    /\ \E text \in BotTexts :
           call' = [call EXCEPT !.has_content = TRUE, !.content = text, !.data_type = "text"]
    /\ UNCHANGED <<pc, ret, outcome, log, botRest>>

\* receive_file for a .csv document
receive_file ==
    /\ \E text \in BotFiles :
           call' = [call EXCEPT !.has_content = TRUE, !.content = text, !.data_type = "csv"]
    /\ UNCHANGED <<pc, ret, outcome, log, botRest>>

\* choose_format: a press of a format button (the buttons are sent after a message was
\* stored): the format goes to the session and a thread is started
choose_format ==
    /\ call.has_content
    /\ \E fmt \in BotFormats, t \in Generations :
           /\ pc[t] = "idle"
           /\ \A u \in Generations : u < t => pc[u] # "idle"
           /\ call' = [call EXCEPT !.output_format = fmt]
           /\ pc' = [pc EXCEPT ![t] = "generate"]
           /\ ret' = [ret EXCEPT ![t] =
                         [ started |-> TRUE,
                           pressed |-> [ output_format |-> fmt, content |-> call.content,
                                         data_type |-> call.data_type ],
                           report |-> "none", fmt |-> "none", sent |-> << >>,
                           removed |-> FALSE, failed |-> FALSE ]]
    /\ UNCHANGED <<outcome, log, botRest>>

\* the report generator.generate_report builds from a content
ReportOf(content, data_type) == [of |-> content, data_type |-> data_type]

\* lines 84-91: the thread reads content and data_type from the session
GenerateReport(t) ==
    /\ pc[t] = "generate"
    /\ ret' = [ret EXCEPT ![t].report = ReportOf(call.content, call.data_type)]
    /\ pc' = [pc EXCEPT ![t] = "format"]
    /\ UNCHANGED <<call, outcome, log, botRest>>

\* line 95: fmt = user.get("output_format", "txt")
ReadFormat(t) ==
    /\ pc[t] = "format"
    /\ ret' = [ret EXCEPT ![t].fmt = call.output_format]
    /\ pc' = [pc EXCEPT ![t] = "create"]
    /\ UNCHANGED <<call, outcome, log, botRest>>

\* lines 104-105: creator(report, filename) writes the file of the format
CreateFile(t) ==
    /\ pc[t] = "create"
    /\ outcome' = [outcome EXCEPT ![ret[t].fmt] =
                      [exists |-> TRUE, report |-> ret[t].report, by |-> t]]
    /\ pc' = [pc EXCEPT ![t] = "send"]
    /\ UNCHANGED <<call, ret, log, botRest>>

\* the except clause: the error is sent to the chat, the thread ends
FailedWith(t, error) ==
    /\ ret' = [ret EXCEPT ![t].failed = TRUE]
    /\ log' = Append(log, [kind |-> "error", by |-> t, error |-> error])
    /\ pc' = [pc EXCEPT ![t] = "done"]
    /\ UNCHANGED outcome

\* lines 107-108: open(filename, "rb") and bot.send_document
SendDocument(t) ==
    /\ pc[t] = "send"
    /\ IF outcome[ret[t].fmt].exists
       THEN \E document \in {[ kind |-> "document", by |-> t, output_format |-> ret[t].fmt,
                               report |-> outcome[ret[t].fmt].report,
                               file_by |-> outcome[ret[t].fmt].by ]} :
                /\ ret' = [ret EXCEPT ![t].sent = Append(@, document)]
                /\ log' = Append(log, document)
                /\ pc' = [pc EXCEPT ![t] = "remove"]
                /\ UNCHANGED outcome
       ELSE FailedWith(t, "FileNotFoundError")
    /\ UNCHANGED <<call, botRest>>

\* line 110: os.remove(filename)
RemoveFile(t) ==
    /\ pc[t] = "remove"
    /\ IF outcome[ret[t].fmt].exists
       THEN /\ outcome' = [outcome EXCEPT ![ret[t].fmt] = NoFile]
            /\ ret' = [ret EXCEPT ![t].removed = TRUE]
            /\ pc' = [pc EXCEPT ![t] = "done"]
            /\ UNCHANGED log
       ELSE FailedWith(t, "FileNotFoundError")
    /\ UNCHANGED <<call, botRest>>

NextBot ==
    \/ receive_text
    \/ receive_file
    \/ choose_format
    \/ \E t \in Generations : GenerateReport(t)
    \/ \E t \in Generations : ReadFormat(t)
    \/ \E t \in Generations : CreateFile(t)
    \/ \E t \in Generations : SendDocument(t)
    \/ \E t \in Generations : RemoveFile(t)

SpecBot == InitBot /\ [][NextBot]_vars

\* C30: each generation started by a press of a format button delivers to the chat one
\* document, in the format of that press, built from the content stored at that press
\* and written by itself, and then deletes its file; it does not fail because another
\* thread removed the file.  This holds under every interleaving with another
\* message, another press or another generation for the same chat.
C30_EachPressItsDocument ==
    \A t \in Generations :
        pc[t] = "done" =>
            /\ ~ret[t].failed
            /\ ret[t].removed
            /\ Len(ret[t].sent) = 1
            /\ ret[t].sent[1].output_format = ret[t].pressed.output_format
            /\ ret[t].sent[1].report = ReportOf(ret[t].pressed.content, ret[t].pressed.data_type)
            /\ ret[t].sent[1].file_by = t

=============================================================================
